---- MODULE Spec2Model ----
(***************************************************************************)
(* Living Heirloom: the orchestration core.                                *)
(*                                                                         *)
(*   Spec       WebLLMManager lifecycle (src/lib/ai/webllm-manager.ts)     *)
(*                                                                         *)
(* An async method is cut at its awaits: the code between two awaits runs  *)
(* to completion on the single event loop and is one action.               *)
(***************************************************************************)
EXTENDS Integers, Sequences, FiniteSets, TLC

VARIABLES
    \* ---- WebLLMManager fields
    engine,          \* 0 = null, a = the engine produced by load attempt a
    isInitialized,
    initPromise,     \* 0 = null, a = the promise returned by doInitialize call a
    \* ---- doInitialize calls (attempts) and the runtime
    attempts,        \* number of doInitialize calls made so far
    promState,       \* state of the promise of each doInitialize call
    loadState,       \* CreateMLCEngine of each attempt
    raceState,       \* what settled Promise.race of each attempt
    timer,           \* the setTimeout of each attempt
    warm,            \* the warm-up completion call of each attempt
    reports,         \* number of progress reports the runtime made so far
    \* ---- broadcasts
    lastEvent,       \* the last AILoadingProgress given to notifyProgress
    readyCnt,        \* ready-stage broadcasts per attempt
    errorCnt,        \* error-stage broadcasts per attempt
    \* ---- callers of initialize() and unload()
    pc,              \* position of each caller of initialize()
    target,          \* the doInitialize promise a caller was handed (0: none)
    unloadPc,        \* position of the caller of unload()
    \* ---- CapsuleEncryption
    capsule_key,     \* localStorage item 'capsule_key' (NoItem: absent)
    keysMade,        \* number of generateKey calls so far
    gcm,             \* the AES-GCM encryptions performed so far
    jobs,            \* the calls of CapsuleEncryption.encrypt
    trip,            \* last result of decrypt applied to the blob of an encrypt call
    alt,             \* last result of decrypt applied to an altered blob
    \* ---- LivingHeirloomDB, table timeCapsules
    timeCapsules,    \* the stored capsule records, by id
    nextId,          \* the next auto-incremented id
    pending,         \* what awaits each encrypt call made by a hook
    lastRead,        \* last result of getCapsuleContent
    lastSave,        \* how the last saveCapsuleWithAudio call ended
    \* ---- useVoice, VoiceManager and table voiceModels
    voiceModels,     \* the stored voice model records, in order of their ids
    idsMade,         \* number of local model ids generated so far
    clones,          \* the calls of cloneVoice
    synth,           \* the current call of generateSpeech or testModel
    isProcessing,    \* the state isProcessing of the hook useVoice
    \* ---- WebLLMManager, the generation operations
    gen,             \* the current call of a generation operation
    \* ---- validation utilities
    validation,      \* the last call of Validators.voiceSamples
    \* ---- the recording part of useVoice and of VoiceRecorder
    rec,             \* the mounted component, its refs and the streams it acquired
    \* ---- WebLLMManager, the progress subscribers
    subs,            \* progressCallbacks and what each subscriber received
    \* ---- config.ts
    cfg,             \* the last call of createConfig: its inputs and its result
    \* ---- VoiceManager.cleanupModels
    cleanup,         \* the current call of cleanupModels and what it did to each model
    \* ---- LivingHeirloomDB, table settings
    settings         \* the stored settings records and the calls that read and write them

mgrVars == <<engine, isInitialized, initPromise, attempts, promState, loadState,
             raceState, timer, warm, reports, lastEvent, readyCnt, errorCnt,
             pc, target, unloadPc>>

cryptoVars == <<capsule_key, keysMade, gcm, jobs, trip, alt>>
dbVars == <<timeCapsules, nextId, pending, lastRead, lastSave>>

voiceVars == <<voiceModels, idsMade, clones, synth, isProcessing>>

nonMgrVars == <<<<cryptoVars, dbVars, voiceVars, validation>>, gen, rec, subs, cfg, cleanup, settings>>
nonCryptoVars == <<mgrVars, dbVars, voiceVars, gen, validation, rec, subs, cfg, cleanup, settings>>
nonStoreVars == <<mgrVars, trip, alt, voiceVars, gen, validation, rec, subs, cfg, cleanup, settings>>
nonVoiceVars == <<mgrVars, cryptoVars, dbVars, gen, validation, rec, subs, cfg, cleanup, settings>>

vars == <<mgrVars, cryptoVars, dbVars, voiceVars, gen, validation, rec, subs, cfg, cleanup, settings>>

----------------------------------------------------------------------------
(* Bounds *)

MaxAttempts == 2
MaxReports == 2
NCallers == 2
MaxJobs == 2
MaxCapsules == 1
MaxClones == 2

----------------------------------------------------------------------------
(* Text helpers.  A string the code inspects is a sequence of characters. *)

Includes(s, sub) ==
    \E i \in 0..(Len(s) - Len(sub)) : SubSeq(s, i + 1, i + Len(sub)) = sub

MsgLoadFailed == <<"l","o","a","d"," ","f","a","i","l","e","d">>
NotAnError == <<>>

----------------------------------------------------------------------------
(* Strings, bytes and their encodings.  A JavaScript string is a sequence   *)
(* of UTF-16 code units, a buffer a sequence of bytes.                     *)

isHighSurrogate(c) == c >= 55296 /\ c <= 56319
isLowSurrogate(c) == c >= 56320 /\ c <= 57343

\* TextEncoder.encode: a surrogate pair is one code point, an unpaired
\* surrogate is replaced by U+FFFD
RECURSIVE TextEncode(_)
TextEncode(s) ==
    LET
        \* UTF-8 bytes of one code point
        utf8Bytes(cp) ==
            IF cp < 128 THEN <<cp>>
            ELSE IF cp < 2048 THEN <<192 + (cp \div 64), 128 + (cp % 64)>>
            ELSE IF cp < 65536
                 THEN <<224 + (cp \div 4096), 128 + ((cp \div 64) % 64), 128 + (cp % 64)>>
            ELSE <<240 + (cp \div 262144), 128 + ((cp \div 4096) % 64),
                   128 + ((cp \div 64) % 64), 128 + (cp % 64)>>
    IN
        IF s = <<>> THEN <<>>
        ELSE IF isHighSurrogate(s[1]) /\ Len(s) >= 2 /\ isLowSurrogate(s[2])
             THEN utf8Bytes(65536 + (s[1] - 55296) * 1024 + (s[2] - 56320))
                      \o TextEncode(SubSeq(s, 3, Len(s)))
        ELSE IF isHighSurrogate(s[1]) \/ isLowSurrogate(s[1])
             THEN utf8Bytes(65533) \o TextEncode(Tail(s))
        ELSE utf8Bytes(s[1]) \o TextEncode(Tail(s))

\* new TextDecoder().decode: ignoreBOM is false, so a leading byte order
\* mark is consumed and not part of the result
TextDecode(b) ==
    LET
        isCont(x) == x >= 128 /\ x <= 191
        \* code units of one code point
        utf16Units(cp) ==
            IF cp < 65536 THEN <<cp>>
            ELSE <<55296 + ((cp - 65536) \div 1024), 56320 + ((cp - 65536) % 1024)>>
        \* the UTF-8 decoder proper; a byte that starts no well-formed sequence
        \* decodes to U+FFFD
        RECURSIVE utf8Decode(_)
        utf8Decode(r) ==
            IF r = <<>> THEN <<>>
            ELSE IF r[1] < 128 THEN <<r[1]>> \o utf8Decode(Tail(r))
            ELSE IF r[1] >= 194 /\ r[1] <= 223 /\ Len(r) >= 2 /\ isCont(r[2])
                 THEN utf16Units((r[1] - 192) * 64 + (r[2] - 128))
                          \o utf8Decode(SubSeq(r, 3, Len(r)))
            ELSE IF r[1] >= 224 /\ r[1] <= 239 /\ Len(r) >= 3 /\ isCont(r[2]) /\ isCont(r[3])
                    /\ (r[1] - 224) * 4096 + (r[2] - 128) * 64 + (r[3] - 128) >= 2048
                    /\ ~isHighSurrogate((r[1] - 224) * 4096 + (r[2] - 128) * 64 + (r[3] - 128))
                    /\ ~isLowSurrogate((r[1] - 224) * 4096 + (r[2] - 128) * 64 + (r[3] - 128))
                 THEN utf16Units((r[1] - 224) * 4096 + (r[2] - 128) * 64 + (r[3] - 128))
                          \o utf8Decode(SubSeq(r, 4, Len(r)))
            ELSE IF r[1] >= 240 /\ r[1] <= 244 /\ Len(r) >= 4 /\ isCont(r[2]) /\ isCont(r[3])
                    /\ isCont(r[4])
                    /\ (r[1] - 240) * 262144 + (r[2] - 128) * 4096 + (r[3] - 128) * 64
                         + (r[4] - 128) >= 65536
                    /\ (r[1] - 240) * 262144 + (r[2] - 128) * 4096 + (r[3] - 128) * 64
                         + (r[4] - 128) <= 1114111
                 THEN utf16Units((r[1] - 240) * 262144 + (r[2] - 128) * 4096
                                   + (r[3] - 128) * 64 + (r[4] - 128))
                          \o utf8Decode(SubSeq(r, 5, Len(r)))
            ELSE <<65533>> \o utf8Decode(Tail(r))
    IN
        IF Len(b) >= 3 /\ SubSeq(b, 1, 3) = <<239, 187, 191>>
        THEN utf8Decode(SubSeq(b, 4, Len(b)))
        ELSE utf8Decode(b)

\* value of a base64 character, -1 for any other code unit
b64Val(c) ==
    IF c >= 65 /\ c <= 90 THEN c - 65
    ELSE IF c >= 97 /\ c <= 122 THEN c - 97 + 26
    ELSE IF c >= 48 /\ c <= 57 THEN c - 48 + 52
    ELSE IF c = 43 THEN 62
    ELSE IF c = 47 THEN 63
    ELSE -1

\* btoa of the binary string built from the bytes of a buffer
RECURSIVE arrayBufferToBase64(_)
arrayBufferToBase64(b) ==
    LET
        \* the base64 alphabet, as code units
        b64Char(n) ==
            IF n < 26 THEN 65 + n
            ELSE IF n < 52 THEN 97 + (n - 26)
            ELSE IF n < 62 THEN 48 + (n - 52)
            ELSE IF n = 62 THEN 43 ELSE 47
    IN
        IF b = <<>> THEN <<>>
        ELSE IF Len(b) = 1
             THEN <<b64Char(b[1] \div 4), b64Char((b[1] % 4) * 16), 61, 61>>
        ELSE IF Len(b) = 2
             THEN <<b64Char(b[1] \div 4), b64Char((b[1] % 4) * 16 + (b[2] \div 16)),
                    b64Char((b[2] % 16) * 4), 61>>
        ELSE <<b64Char(b[1] \div 4), b64Char((b[1] % 4) * 16 + (b[2] \div 16)),
               b64Char((b[2] % 16) * 4 + (b[3] \div 64)), b64Char(b[3] % 64)>>
                 \o arrayBufferToBase64(SubSeq(b, 4, Len(b)))

\* the completion of a call: a returned value or a thrown error
Ok(v) == [ok |-> TRUE, val |-> v, err |-> ""]
Throws(kind) == [ok |-> FALSE, val |-> <<>>, err |-> kind]

\* base64ToArrayBuffer: atob throws InvalidCharacterError on data that is
\* not base64
base64ToArrayBuffer(base64) ==
    LET
        isAsciiWhitespace(c) == c \in {9, 10, 12, 13, 32}
        RECURSIVE stripAsciiWhitespace(_)
        stripAsciiWhitespace(s) ==
            IF s = <<>> THEN <<>>
            ELSE IF isAsciiWhitespace(s[1]) THEN stripAsciiWhitespace(Tail(s))
            ELSE <<s[1]>> \o stripAsciiWhitespace(Tail(s))
        \* atob, step 2 of forgiving-base64 decode: drop one or two trailing "="
        \* when the length is a multiple of 4
        stripPadding(s) ==
            IF Len(s) % 4 = 0 /\ Len(s) >= 2 /\ s[Len(s)] = 61 /\ s[Len(s) - 1] = 61
            THEN SubSeq(s, 1, Len(s) - 2)
            ELSE IF Len(s) % 4 = 0 /\ Len(s) >= 1 /\ s[Len(s)] = 61
            THEN SubSeq(s, 1, Len(s) - 1)
            ELSE s
        \* bytes of base64 data without padding; the bits left over are discarded
        RECURSIVE b64Bytes(_)
        b64Bytes(s) ==
            IF Len(s) < 2 THEN <<>>
            ELSE IF Len(s) = 2
                 THEN <<b64Val(s[1]) * 4 + (b64Val(s[2]) \div 16)>>
            ELSE IF Len(s) = 3
                 THEN <<b64Val(s[1]) * 4 + (b64Val(s[2]) \div 16),
                        (b64Val(s[2]) % 16) * 16 + (b64Val(s[3]) \div 4)>>
            ELSE <<b64Val(s[1]) * 4 + (b64Val(s[2]) \div 16),
                   (b64Val(s[2]) % 16) * 16 + (b64Val(s[3]) \div 4),
                   (b64Val(s[3]) % 4) * 64 + b64Val(s[4])>>
                     \o b64Bytes(SubSeq(s, 5, Len(s)))
        s == stripPadding(stripAsciiWhitespace(base64)) IN
    IF Len(s) % 4 = 1 \/ \E i \in 1..Len(s) : b64Val(s[i]) = -1
    THEN Throws("InvalidCharacterError")
    ELSE Ok(b64Bytes(s))

----------------------------------------------------------------------------
(* WebLLMManager *)

\* notifyProgress: the progress object handed to every subscriber and to the
\* global ai-progress channel
notifyProgress(stage, progress, text, a) ==
    /\ lastEvent' = [stage |-> stage, progress |-> progress, text |-> text, att |-> a]
    /\ readyCnt' = IF stage = "ready" THEN [readyCnt EXCEPT ![a] = @ + 1] ELSE readyCnt
    /\ errorCnt' = IF stage = "error" THEN [errorCnt EXCEPT ![a] = @ + 1] ELSE errorCnt

\* settle the promise of doInitialize call a: every caller awaiting it resumes
settle(a, how) ==
    /\ promState' = [promState EXCEPT ![a] = how]
    /\ pc' = [c \in 1..NCallers |->
                IF pc[c] = "waiting" /\ target[c] = a THEN how ELSE pc[c]]

\* doInitialize up to its first await: the first broadcast, the timeout
\* timer, the call of CreateMLCEngine
doInitialize(a) ==
    /\ notifyProgress("downloading", 0, "Initializing AI...", a)
    /\ timer' = [timer EXCEPT ![a] = "armed"]
    /\ loadState' = [loadState EXCEPT ![a] = "running"]
    /\ raceState' = [raceState EXCEPT ![a] = "open"]
    /\ promState' = [promState EXCEPT ![a] = "pending"]
    /\ attempts' = a

\* initialize() without the in-flight check
initialize_noInFlightCheck(c) ==
    /\ pc[c] # "waiting"
    /\ IF isInitialized
       THEN /\ pc' = [pc EXCEPT ![c] = "resolved"]
            /\ target' = [target EXCEPT ![c] = 0]
            /\ UNCHANGED <<initPromise, attempts, promState, loadState, raceState,
                           timer, lastEvent, readyCnt, errorCnt>>
       ELSE /\ attempts < MaxAttempts
            /\ doInitialize(attempts + 1)
            /\ initPromise' = attempts + 1
            /\ pc' = [pc EXCEPT ![c] = "waiting"]
            /\ target' = [target EXCEPT ![c] = attempts + 1]
    /\ UNCHANGED <<engine, isInitialized, warm, reports, unloadPc>>

\* initialize() without `if (this.isInitialized) return`
initialize_noReadyCheck(c) ==
    /\ pc[c] # "waiting"
    /\ IF initPromise # 0
       THEN /\ pc' = [pc EXCEPT ![c] =
                        IF promState[initPromise] = "pending" THEN "waiting"
                        ELSE promState[initPromise]]
            /\ target' = [target EXCEPT ![c] = initPromise]
            /\ UNCHANGED <<initPromise, attempts, promState, loadState, raceState,
                           timer, lastEvent, readyCnt, errorCnt>>
       ELSE /\ attempts < MaxAttempts
            /\ doInitialize(attempts + 1)
            /\ initPromise' = attempts + 1
            /\ pc' = [pc EXCEPT ![c] = "waiting"]
            /\ target' = [target EXCEPT ![c] = attempts + 1]
    /\ UNCHANGED <<engine, isInitialized, warm, reports, unloadPc>>

\* initialize(), called by caller c, who then awaits the returned promise
initialize(c) ==
    /\ pc[c] # "waiting"
    /\ IF isInitialized
       THEN /\ pc' = [pc EXCEPT ![c] = "resolved"]
            /\ target' = [target EXCEPT ![c] = 0]
            /\ UNCHANGED <<initPromise, attempts, promState, loadState, raceState,
                           timer, lastEvent, readyCnt, errorCnt>>
       ELSE IF initPromise # 0
       THEN /\ pc' = [pc EXCEPT ![c] =
                        IF promState[initPromise] = "pending" THEN "waiting"
                        ELSE promState[initPromise]]
            /\ target' = [target EXCEPT ![c] = initPromise]
            /\ UNCHANGED <<initPromise, attempts, promState, loadState, raceState,
                           timer, lastEvent, readyCnt, errorCnt>>
       ELSE /\ attempts < MaxAttempts
            /\ doInitialize(attempts + 1)
            /\ initPromise' = attempts + 1
            /\ pc' = [pc EXCEPT ![c] = "waiting"]
            /\ target' = [target EXCEPT ![c] = attempts + 1]
    /\ UNCHANGED <<engine, isInitialized, warm, reports, unloadPc>>

\* a component calls initialize() and awaits it
InitializeCall(c) ==
    /\ initialize(c)
    /\ UNCHANGED nonMgrVars

\* the runtime reports progress of load a (it goes on reporting after the
\* race was lost to the timer: the load is not cancelled)
ProgressReport(a, f) ==
    LET
        \* initProgressCallback: stage and text chosen from the reported fraction
        progressStage == IF f < 80 THEN "downloading" ELSE "loading"
        progressText ==
            IF f < 20 THEN "Downloading AI model files..."
            ELSE IF f < 50 THEN "Processing model components..."
            ELSE IF f < 80 THEN "Preparing model for use..."
            ELSE "Finalizing AI initialization..."
    IN
        /\ UNCHANGED nonMgrVars
        /\ loadState[a] = "running"
        /\ reports < MaxReports
        /\ reports' = reports + 1
        /\ notifyProgress(progressStage, f, progressText, a)
        /\ UNCHANGED <<engine, isInitialized, initPromise, attempts, promState,
                       loadState, raceState, timer, warm, pc, target, unloadPc>>

\* LoadResolves with the ready broadcast made before isInitialized is set
LoadResolves_broadcastBeforeFlag(a) ==
    /\ UNCHANGED nonMgrVars
    /\ loadState[a] = "running"
    /\ loadState' = [loadState EXCEPT ![a] = "done"]
    /\ IF raceState[a] = "open"
       THEN /\ raceState' = [raceState EXCEPT ![a] = "engine"]
            /\ engine' = a
            /\ notifyProgress("ready", 100, "AI ready for conversations!", a)
            /\ warm' = [warm EXCEPT ![a] = "pending"]
            /\ UNCHANGED isInitialized
       ELSE UNCHANGED <<raceState, engine, isInitialized, lastEvent, readyCnt,
                        errorCnt, warm>>
    /\ UNCHANGED <<initPromise, attempts, promState, timer, reports, pc, target,
                   unloadPc>>

\* CreateMLCEngine of attempt a resolves; if the race is still open,
\* doInitialize resumes after the await: engine, isInitialized, the ready
\* broadcast, and the warm-up call
LoadResolves(a) ==
    /\ UNCHANGED nonMgrVars
    /\ loadState[a] = "running"
    /\ loadState' = [loadState EXCEPT ![a] = "done"]
    /\ IF raceState[a] = "open"
       THEN /\ raceState' = [raceState EXCEPT ![a] = "engine"]
            /\ engine' = a
            /\ isInitialized' = TRUE
            /\ notifyProgress("ready", 100, "AI ready for conversations!", a)
            /\ warm' = [warm EXCEPT ![a] = "pending"]
       ELSE UNCHANGED <<raceState, engine, isInitialized, lastEvent, readyCnt,
                        errorCnt, warm>>
    /\ UNCHANGED <<initPromise, attempts, promState, timer, reports, pc, target,
                   unloadPc>>

\* the catch block of doInitialize: error broadcast, then rethrow
doInitializeCatch(a, msg) ==
    LET
        \* text of the error-stage event
        errorText ==
            IF msg = NotAnError THEN "AI unavailable"
            ELSE IF Includes(msg, <<"t","i","m","e","o","u","t">>)
            THEN "AI initialization timed out"
            ELSE IF Includes(msg, <<"n","e","t","w","o","r","k">>)
            THEN "Network error loading AI"
            ELSE IF Includes(msg, <<"m","e","m","o","r","y">>)
            THEN "Insufficient memory for AI"
            ELSE "AI unavailable"
    IN
        /\ notifyProgress("error", 0, errorText, a)
        /\ settle(a, "rejected")

\* CreateMLCEngine of attempt a rejects with an error whose message is msg
LoadRejects(a, msg) ==
    /\ UNCHANGED nonMgrVars
    /\ loadState[a] = "running"
    /\ loadState' = [loadState EXCEPT ![a] = "failed"]
    /\ IF raceState[a] = "open"
       THEN /\ raceState' = [raceState EXCEPT ![a] = "loaderr"]
            /\ doInitializeCatch(a, msg)
       ELSE UNCHANGED <<raceState, lastEvent, readyCnt, errorCnt, promState, pc>>
    /\ UNCHANGED <<engine, isInitialized, initPromise, attempts, timer, warm,
                   reports, target, unloadPc>>

\* TimerFires with a timeout that reaches the catch block whatever settled
\* the race
TimerFires_afterRace(a) ==
    /\ UNCHANGED nonMgrVars
    /\ timer[a] = "armed"
    /\ timer' = [timer EXCEPT ![a] = "fired"]
    /\ raceState' = [raceState EXCEPT ![a] = "timeout"]
    /\ doInitializeCatch(a,
          <<"A","I"," ","i","n","i","t","i","a","l","i","z","a","t","i","o","n",
            " ","t","i","m","e","d"," ","o","u","t">>)
    /\ UNCHANGED <<engine, isInitialized, initPromise, attempts, loadState, warm,
                   reports, target, unloadPc>>

\* the setTimeout callback of attempt a runs (the timer is never cleared)
TimerFires(a) ==
    /\ UNCHANGED nonMgrVars
    /\ timer[a] = "armed"
    /\ timer' = [timer EXCEPT ![a] = "fired"]
    /\ IF raceState[a] = "open"
       THEN /\ raceState' = [raceState EXCEPT ![a] = "timeout"]
            \* new Error('AI initialization timed out')
            /\ doInitializeCatch(a,
                  <<"A","I"," ","i","n","i","t","i","a","l","i","z","a","t","i","o","n",
                    " ","t","i","m","e","d"," ","o","u","t">>)
       ELSE UNCHANGED <<raceState, lastEvent, readyCnt, errorCnt, promState, pc>>
    /\ UNCHANGED <<engine, isInitialized, initPromise, attempts, loadState, warm,
                   reports, target, unloadPc>>

\* the warm-up call without its own try/catch: its failure reaches the
\* catch block of doInitialize
WarmupSettles_failureRethrown(a, ok) ==
    /\ UNCHANGED nonMgrVars
    /\ warm[a] = "pending"
    /\ warm' = [warm EXCEPT ![a] = IF ok THEN "ok" ELSE "failed"]
    /\ IF ok
       THEN /\ settle(a, "resolved")
            /\ UNCHANGED <<lastEvent, readyCnt, errorCnt>>
       ELSE doInitializeCatch(a, MsgLoadFailed)
    /\ UNCHANGED <<engine, isInitialized, initPromise, attempts, loadState,
                   raceState, timer, reports, target, unloadPc>>

\* the warm-up completion call of attempt a settles; either way doInitialize
\* returns
WarmupSettles(a, ok) ==
    /\ UNCHANGED nonMgrVars
    /\ warm[a] = "pending"
    /\ warm' = [warm EXCEPT ![a] = IF ok THEN "ok" ELSE "failed"]
    /\ settle(a, "resolved")
    /\ UNCHANGED <<engine, isInitialized, initPromise, attempts, loadState,
                   raceState, timer, reports, lastEvent, readyCnt, errorCnt,
                   target, unloadPc>>

\* unload() up to its await
unload ==
    /\ UNCHANGED nonMgrVars
    /\ unloadPc # "awaiting"
    /\ unloadPc' = IF engine # 0 THEN "awaiting" ELSE "returned"
    /\ UNCHANGED <<engine, isInitialized, initPromise, attempts, promState,
                   loadState, raceState, timer, warm, reports, lastEvent,
                   readyCnt, errorCnt, pc, target>>

\* engine.unload() settles and unload() resumes
UnloadSettles(ok) ==
    /\ UNCHANGED nonMgrVars
    /\ unloadPc = "awaiting"
    /\ IF ok
       THEN /\ engine' = 0
            /\ isInitialized' = FALSE
            /\ initPromise' = 0
            /\ unloadPc' = "returned"
       ELSE /\ unloadPc' = "rejected"
            /\ UNCHANGED <<engine, isInitialized, initPromise>>
    /\ UNCHANGED <<attempts, promState, loadState, raceState, timer, warm,
                   reports, lastEvent, readyCnt, errorCnt, pc, target>>

----------------------------------------------------------------------------
(* CapsuleEncryption (src/lib/db/database.ts, lines 777-918) *)

Rep(b, n) == [i \in 1..n |-> b]

NoItem == <<-1>>

SaltLen == 16
IvLen == 12
KeyBits == 256

\* crypto.getRandomValues: the values the model draws salts and ivs from
Salts == {Rep(7, SaltLen)}
IVs == {Rep(1, IvLen)}

\* the passphrase argument; the empty string stands for an omitted one
\* (both are falsy in `if (password)`)
NoPassword == <<>>
Passwords == {NoPassword, <<112>>}

\* a string handed to encrypt: "a\n" followed by U+2019
XPunct == <<97, 10, 8217>>

\* generateKey: a fresh random 256-bit key, distinct from every earlier one
generateKey(n) == [raw |-> Rep(n, KeyBits \div 8), pw |-> <<>>, salt |-> <<>>]

\* deriveKey: PBKDF2 is a function of the passphrase and the salt
deriveKey(password, salt) == [raw |-> <<>>, pw |-> password, salt |-> salt]

keyByte(key) == IF key.raw # <<>> THEN key.raw[1] ELSE key.pw[1] + key.salt[1]

\* crypto.subtle.encrypt with AES-GCM: the ciphertext has the length of the
\* data plus the 16-byte tag and is a function of key, iv and data
gcmEncrypt(key, iv, data) ==
    [i \in 1..Len(data) |-> (data[i] + keyByte(key) + iv[1]) % 256]
        \o Rep((keyByte(key) + iv[1] + Len(data)) % 256, 16)

\* crypto.subtle.decrypt with AES-GCM: only a ciphertext produced under the
\* same key and iv authenticates; anything else is an OperationError
gcmDecrypt(key, iv, buf) ==
    IF \E e \in gcm : e.key = key /\ e.iv = iv /\ e.ct = buf
    THEN Ok((CHOOSE e \in gcm : e.key = key /\ e.iv = iv /\ e.ct = buf).data)
    ELSE Throws("OperationError")

\* crypto.subtle.importKey('raw', ..., 'AES-GCM')
importKey(keyBuffer) ==
    IF Len(keyBuffer) \in {16, 24, 32}
    THEN Ok([raw |-> keyBuffer, pw |-> <<>>, salt |-> <<>>])
    ELSE Throws("DataError")

\* retrieveKey, given the stored item
retrieveKey(keyData) ==
    IF keyData = NoItem \/ keyData = <<>> THEN Throws("No encryption key found")
    ELSE LET keyBuffer == base64ToArrayBuffer(keyData) IN
         IF ~keyBuffer.ok THEN keyBuffer ELSE importKey(keyBuffer.val)

freeJob == IF \E j \in 1..MaxJobs : jobs[j].pc = "none"
           THEN CHOOSE j \in 1..MaxJobs :
                    /\ jobs[j].pc = "none"
                    /\ \A i \in 1..MaxJobs : jobs[i].pc = "none" => j <= i
           ELSE 0

\* encrypt up to its first await: encode, draw salt and iv, and start
\* deriving or generating the key
encryptCall(j, owner, content, password, salt, iv) ==
    /\ jobs' = [jobs EXCEPT ![j] =
                  [pc |-> IF password # <<>> THEN "encrypting" ELSE "keygen",
                   owner |-> owner, content |-> content, pw |-> password,
                   salt |-> salt, iv |-> iv,
                   key |-> IF password # <<>> THEN deriveKey(password, salt)
                           ELSE generateKey(keysMade + 1),
                   encryptedData |-> <<>>]]
    /\ keysMade' = IF password # <<>> THEN keysMade ELSE keysMade + 1

\* storeKey, after generateKey and exportKey resolved: localStorage.setItem,
\* which throws when storage is full or denied (ok = FALSE)
storeKey(j, ok) ==
    /\ jobs[j].pc = "keygen"
    /\ capsule_key' = IF ok THEN arrayBufferToBase64(jobs[j].key.raw) ELSE capsule_key
    /\ jobs' = [jobs EXCEPT ![j].pc = IF ok THEN "encrypting" ELSE "rejected"]
    /\ UNCHANGED <<keysMade, gcm, trip, alt>>

\* the rest of encrypt: crypto.subtle.encrypt resolves and the three base64
\* strings are returned
encryptReturn(j) ==
    LET job == jobs[j]
        data == TextEncode(job.content)
        ct == gcmEncrypt(job.key, job.iv, data)
    IN /\ job.pc = "encrypting"
       /\ gcm' = gcm \cup {[key |-> job.key, iv |-> job.iv, ct |-> ct, data |-> data]}
       /\ jobs' = [jobs EXCEPT ![j].pc = "returned",
                               ![j].encryptedData = arrayBufferToBase64(ct),
                               ![j].salt = arrayBufferToBase64(job.salt),
                               ![j].iv = arrayBufferToBase64(job.iv)]
       /\ UNCHANGED <<capsule_key, keysMade, trip, alt>>

\* CapsuleEncryption.decrypt
decrypt(encryptedData, salt, iv, password) ==
    LET encryptedBuffer == base64ToArrayBuffer(encryptedData)
        saltBuffer == base64ToArrayBuffer(salt)
        ivBuffer == base64ToArrayBuffer(iv)
    IN IF ~encryptedBuffer.ok THEN encryptedBuffer
       ELSE IF ~saltBuffer.ok THEN saltBuffer
       ELSE IF ~ivBuffer.ok THEN ivBuffer
       ELSE LET key == IF password # <<>> THEN Ok(deriveKey(password, saltBuffer.val))
                       ELSE retrieveKey(capsule_key)
            IN IF ~key.ok THEN Throws(key.err)
               ELSE LET decryptedData == gcmDecrypt(key.val, ivBuffer.val, encryptedBuffer.val)
                    IN IF ~decryptedData.ok THEN decryptedData
                       ELSE Ok(TextDecode(decryptedData.val))

\* a caller of the encryption API calls encrypt(x, password)
ApiEncrypt(x, password, salt, iv) ==
    /\ freeJob # 0
    /\ encryptCall(freeJob, "api", x, password, salt, iv)
    /\ UNCHANGED <<capsule_key, gcm, trip, alt>>
    /\ UNCHANGED nonCryptoVars

ApiStoreKey(j, ok) ==
    /\ jobs[j].owner = "api"
    /\ storeKey(j, ok)
    /\ UNCHANGED nonCryptoVars

ApiEncryptReturn(j) ==
    /\ jobs[j].owner = "api"
    /\ encryptReturn(j)
    /\ UNCHANGED nonCryptoVars

\* the caller hands the blob encrypt call j returned to decrypt, with the
\* passphrase of that call
ApiDecrypt(j) ==
    /\ jobs[j].pc = "returned"
    /\ trip' = [done |-> TRUE, j |-> j,
                res |-> decrypt(jobs[j].encryptedData, jobs[j].salt, jobs[j].iv,
                                jobs[j].pw)]
    /\ UNCHANGED <<capsule_key, keysMade, gcm, jobs, alt>>
    /\ UNCHANGED nonCryptoVars

alter(blob, field, how) ==
    LET
        flipFirst(text) ==
            LET b == base64ToArrayBuffer(text).val
            IN arrayBufferToBase64([b EXCEPT ![1] = (b[1] + 1) % 256])
        alterText(text) ==
            CASE how = "flip" -> flipFirst(text)
              [] how = "badchar" -> text \o <<33>>
              [] how = "space" -> text \o <<32>>
              [] how = "empty" -> <<>>
    IN
        [blob EXCEPT ![field] = alterText(blob[field])]

\* the caller hands decrypt the blob of encrypt call j with one field
\* altered, with the passphrase of that call
ApiDecryptAltered(j, field, how) ==
    LET blob == alter([encryptedData |-> jobs[j].encryptedData,
                       salt |-> jobs[j].salt, iv |-> jobs[j].iv], field, how)
    IN /\ jobs[j].pc = "returned"
       /\ alt' = [done |-> TRUE, j |-> j, field |-> field, how |-> how,
                  res |-> decrypt(blob.encryptedData, blob.salt, blob.iv, jobs[j].pw)]
       /\ UNCHANGED <<capsule_key, keysMade, gcm, jobs, trip>>
       /\ UNCHANGED nonCryptoVars

CryptoNext ==
    \* the strings handed to encrypt: XPunct, an emoji (a surrogate pair), an
    \* unpaired high surrogate, U+FEFF followed by "h", the empty string
    \/ \E x \in {XPunct, <<55357, 56832>>, <<55357>>, <<65279, 104>>, <<>>},
          pw \in Passwords, salt \in Salts, iv \in IVs :
          ApiEncrypt(x, pw, salt, iv)
    \/ \E j \in 1..MaxJobs, ok \in BOOLEAN : ApiStoreKey(j, ok)
    \/ \E j \in 1..MaxJobs : ApiEncryptReturn(j)
    \/ \E j \in 1..MaxJobs : ApiDecrypt(j)

\* the same caller with one plaintext, handing altered blobs to decrypt
AlteredNext ==
    \/ \E pw \in Passwords, salt \in Salts, iv \in IVs :
          ApiEncrypt(XPunct, pw, salt, iv)
    \/ \E j \in 1..MaxJobs, ok \in BOOLEAN : ApiStoreKey(j, ok)
    \/ \E j \in 1..MaxJobs : ApiEncryptReturn(j)
    \* the ways a base64 field of a blob is altered after encryption: another
    \* first byte, a character outside the base64 alphabet, a trailing space
    \* (the text differs, the bytes it decodes to do not), the empty string
    \/ \E j \in 1..MaxJobs, field \in {"encryptedData", "salt", "iv"},
          how \in {"flip", "badchar", "space", "empty"} :
          ApiDecryptAltered(j, field, how)

----------------------------------------------------------------------------
(* LivingHeirloomDB, table timeCapsules (src/lib/db/database.ts, 355-558) *)

\* '[ENCRYPTED]' and the three strings getCapsuleContent returns in place of
\* content, as UTF-16 code units
ENCRYPTED_MARK == <<91, 69, 78, 67, 82, 89, 80, 84, 69, 68, 93>>
SentinelNoData ==
    <<91, 67, 79, 78, 84, 69, 78, 84, 32, 69, 78, 67, 82, 89, 80, 84, 69, 68,
      32, 45, 32, 78, 79, 32, 68, 65, 84, 65, 93>>
SentinelCorrupted ==
    <<91, 67, 79, 78, 84, 69, 78, 84, 32, 69, 78, 67, 82, 89, 80, 84, 69, 68,
      32, 45, 32, 67, 79, 82, 82, 85, 80, 84, 69, 68, 32, 68, 65, 84, 65, 93>>
SentinelUnable ==
    <<91, 67, 79, 78, 84, 69, 78, 84, 32, 69, 78, 67, 82, 89, 80, 84, 69, 68,
      32, 45, 32, 85, 78, 65, 66, 76, 69, 32, 84, 79, 32, 68, 69, 67, 82, 89,
      80, 84, 93>>
\* the characters \s of a JavaScript regular expression matches, which are
\* also the ones String.prototype.trim removes
isJsWhitespace(u) ==
    \/ u \in {9, 10, 11, 12, 13, 32, 160, 5760, 8232, 8233, 8239, 8287, 12288, 65279}
    \/ (u >= 8192 /\ u <= 8202)

RECURSIVE encodeEntities(_)
encodeEntities(s) ==
    LET
        htmlEntity(u) ==
            CASE u = 38 -> <<38, 97, 109, 112, 59>>
              [] u = 60 -> <<38, 108, 116, 59>>
              [] u = 62 -> <<38, 103, 116, 59>>
              [] u = 34 -> <<38, 113, 117, 111, 116, 59>>
              [] u = 39 -> <<38, 35, 120, 50, 55, 59>>
              [] u = 47 -> <<38, 35, 120, 50, 70, 59>>
              [] OTHER -> <<u>>
    IN
        IF s = <<>> THEN <<>> ELSE htmlEntity(Head(s)) \o encodeEntities(Tail(s))

\* replace(/\s+/g, ' ')
RECURSIVE collapseWhitespace(_)
collapseWhitespace(s) ==
    IF s = <<>> THEN <<>>
    ELSE IF isJsWhitespace(Head(s))
         THEN IF Len(s) > 1 /\ isJsWhitespace(s[2])
              THEN collapseWhitespace(Tail(s))
              ELSE <<32>> \o collapseWhitespace(Tail(s))
         ELSE <<Head(s)>> \o collapseWhitespace(Tail(s))

trim(s) ==
    LET
        RECURSIVE trimStart(_)
        trimStart(r) ==
            IF r # <<>> /\ isJsWhitespace(Head(r)) THEN trimStart(Tail(r)) ELSE r
        RECURSIVE trimEnd(_)
        trimEnd(r) ==
            IF r # <<>> /\ isJsWhitespace(r[Len(r)])
            THEN trimEnd(SubSeq(r, 1, Len(r) - 1)) ELSE r
    IN
        trimEnd(trimStart(s))

\* sanitizeText; its third replace never matches once runs of whitespace
\* have become single spaces
sanitizeText(input) == trim(collapseWhitespace(encodeEntities(input)))

\* the content the callers save: " a&b" and a single space
Contents == {<<32, 97, 38, 98>>, <<32>>}

\* the field encryptedContent: undefined, or a string, which is either
\* whitespace only, not JSON, or the JSON text of an object whose fields
\* encryptedData, salt and iv are strings
NoEncryptedContent ==
    [kind |-> "absent", encryptedData |-> <<>>, salt |-> <<>>, iv |-> <<>>]

\* JSON.stringify(encrypted)
stringify(encrypted) ==
    [kind |-> "json", encryptedData |-> encrypted.encryptedData,
     salt |-> encrypted.salt, iv |-> encrypted.iv]

\* validateTimeCapsule, as far as the content decides it
validateTimeCapsule(obj) == Len(obj.content) >= 1 /\ Len(obj.content) <= 50000

put(id, content, encryptedContent, isEncrypted) ==
    [present |-> TRUE, content |-> content, encryptedContent |-> encryptedContent,
     isEncrypted |-> isEncrypted, created |-> content]

\* saveCapsuleWithAudio without an audio blob, up to the moment the creating
\* hook returns: the required fields, the defaults, timeCapsules.add, and in
\* the hook sanitization, validation and the start of encryptCapsuleContent
saveCapsuleWithAudio(content, isEncrypted, outcome, salt, iv) ==
    LET obj == [content |-> sanitizeText(content), isEncrypted |-> isEncrypted]
        encrypts == obj.isEncrypted /\ obj.content # <<>> /\ trim(obj.content) # <<>>
        id == nextId
    IN /\ content # <<>>
       /\ validateTimeCapsule(obj)
       /\ nextId <= MaxCapsules
       /\ IF encrypts
          THEN /\ freeJob # 0
               /\ encryptCall(freeJob, "capsule", obj.content, NoPassword, salt, iv)
               /\ pending' = [pending EXCEPT ![freeJob] =
                                [kind |-> IF outcome = "awaited" THEN "add" ELSE "detached",
                                 id |-> IF outcome = "awaited" THEN id ELSE 0,
                                 content |-> obj.content]]
               /\ IF outcome = "notAwaited"
                  THEN /\ timeCapsules' = [timeCapsules EXCEPT ![id] =
                             put(id, obj.content, NoEncryptedContent, TRUE)]
                       /\ nextId' = nextId + 1
                  ELSE IF outcome = "awaited"
                  THEN /\ nextId' = nextId + 1
                       /\ UNCHANGED timeCapsules
                  ELSE UNCHANGED <<timeCapsules, nextId>>
          ELSE /\ outcome = "awaited"
               /\ timeCapsules' = [timeCapsules EXCEPT ![id] =
                     put(id, obj.content, NoEncryptedContent, obj.isEncrypted)]
               /\ nextId' = nextId + 1
               /\ UNCHANGED <<jobs, keysMade, pending>>
       /\ lastSave' = IF encrypts /\ outcome = "rejected" THEN "rejected" ELSE "resolved"
       /\ UNCHANGED <<capsule_key, gcm, lastRead>>
       /\ UNCHANGED nonStoreVars

\* saveCapsuleWithAudio rejects: a required field is missing, or the creating
\* hook throws because validateTimeCapsule fails
saveCapsuleRejects(content) ==
    /\ content = <<>> \/ ~validateTimeCapsule([content |-> sanitizeText(content)])
    /\ lastSave' = "rejected"
    /\ UNCHANGED <<capsule_key, keysMade, gcm, jobs, timeCapsules, nextId, pending, lastRead>>
    /\ UNCHANGED nonStoreVars

HookStoreKey(j, ok) ==
    /\ pending[j].kind # "none"
    /\ storeKey(j, ok)
    /\ UNCHANGED dbVars
    /\ UNCHANGED <<mgrVars, voiceVars, gen, validation, rec, subs, cfg, cleanup, settings>>

HookEncryptReturn(j) ==
    /\ pending[j].kind # "none"
    /\ encryptReturn(j)
    /\ UNCHANGED dbVars
    /\ UNCHANGED <<mgrVars, voiceVars, gen, validation, rec, subs, cfg, cleanup, settings>>

\* encryptCapsuleContent after its await, for the object of a create the
\* store waited for: on success the object gets encryptedContent and the
\* marker, on failure the catch block leaves it as it is; then the record
\* is written
encryptCapsuleContent(j) ==
    LET job == jobs[j]
        encrypted == [encryptedData |-> job.encryptedData, salt |-> job.salt, iv |-> job.iv]
    IN /\ pending[j].kind = "add"
       /\ job.pc \in {"returned", "rejected"}
       /\ timeCapsules' = [timeCapsules EXCEPT ![pending[j].id] =
             IF job.pc = "returned"
             THEN put(pending[j].id, ENCRYPTED_MARK, stringify(encrypted), TRUE)
             ELSE put(pending[j].id, pending[j].content, NoEncryptedContent, TRUE)]
       /\ pending' = [pending EXCEPT ![j].kind = "done"]
       /\ UNCHANGED <<capsule_key, keysMade, gcm, jobs, nextId, lastRead, lastSave>>
       /\ UNCHANGED nonStoreVars

\* timeCapsules.update(id, {content}): the updating hook sanitizes the
\* modifications in place (applied: whether the store writes the
\* modifications as the hook left them or as the caller passed them) and,
\* for an encrypted record, calls encryptCapsuleContent on a copy
updateCapsule(id, content, applied, salt, iv) ==
    LET obj == timeCapsules[id]
        modifications == [content |-> sanitizeText(content)]
        encrypts == modifications.content # <<>> /\ obj.isEncrypted
                        /\ trim(modifications.content) # <<>>
    IN /\ obj.present
       /\ timeCapsules' = [timeCapsules EXCEPT ![id].content =
                              IF applied THEN modifications.content ELSE content]
       /\ IF encrypts
          THEN /\ freeJob # 0
               /\ encryptCall(freeJob, "copy", modifications.content, NoPassword, salt, iv)
               /\ pending' = [pending EXCEPT ![freeJob] =
                                [kind |-> "detached", id |-> 0,
                                 content |-> modifications.content]]
          ELSE UNCHANGED <<jobs, keysMade, pending>>
       /\ UNCHANGED <<capsule_key, gcm, nextId, lastRead, lastSave>>
       /\ UNCHANGED nonStoreVars

\* getCapsuleContent, for a capsule that is not null
getCapsuleContent(capsule) ==
    LET ec == capsule.encryptedContent
        body ==
            IF ec.kind = "blank" THEN Ok(SentinelNoData)
            ELSE IF ec.kind = "badjson" THEN Throws("SyntaxError")
            ELSE IF ec.encryptedData = <<>> \/ ec.salt = <<>> \/ ec.iv = <<>>
                 THEN Throws("Invalid encrypted data structure")
            ELSE decrypt(ec.encryptedData, ec.salt, ec.iv, NoPassword)
    IN IF ~capsule.isEncrypted \/ ec.kind = "absent" THEN Ok(capsule.content)
       ELSE IF body.ok THEN body
       ELSE IF body.err = "SyntaxError" THEN Ok(SentinelCorrupted)
       ELSE Ok(SentinelUnable)

\* a stored record is read and handed to getCapsuleContent
ReadCapsule(id) ==
    /\ timeCapsules[id].present
    /\ lastRead' = [done |-> TRUE, id |-> id, field |-> "none", how |-> "intact",
                    res |-> getCapsuleContent(timeCapsules[id])]
    /\ UNCHANGED <<capsule_key, keysMade, gcm, jobs, timeCapsules, nextId, pending, lastSave>>
    /\ UNCHANGED nonStoreVars

\* getCapsuleContent is handed a record whose encryptedContent was altered
\* after encryption: one field of the JSON object, or the text as a whole
ReadAltered(id, field, how) ==
    LET ec == timeCapsules[id].encryptedContent
        capsule == [timeCapsules[id] EXCEPT !.encryptedContent =
                       IF how \in {"blank", "badjson"} THEN [ec EXCEPT !.kind = how]
                       ELSE alter(ec, field, how)]
    IN /\ timeCapsules[id].present
       /\ ec.kind = "json"
       /\ (how \in {"blank", "badjson"}) = (field = "text")
       /\ lastRead' = [done |-> TRUE, id |-> id, field |-> field, how |-> how,
                       res |-> getCapsuleContent(capsule)]
       /\ UNCHANGED <<capsule_key, keysMade, gcm, jobs, timeCapsules, nextId, pending, lastSave>>
       /\ UNCHANGED nonStoreVars

StoreNext ==
    \* outcome: how the store treats the promise the creating hook returns.
    \* It waits for it before writing the record, writes the record as it is
    \* when the hook returns, or refuses the value and fails the add
    \/ \E content \in Contents, isEncrypted \in BOOLEAN,
          outcome \in {"awaited", "notAwaited", "rejected"},
          salt \in Salts, iv \in IVs :
          saveCapsuleWithAudio(content, isEncrypted, outcome, salt, iv)
    \/ \E content \in Contents \cup {<<>>} : saveCapsuleRejects(content)
    \/ \E j \in 1..MaxJobs, ok \in BOOLEAN : HookStoreKey(j, ok)
    \/ \E j \in 1..MaxJobs : HookEncryptReturn(j)
    \/ \E j \in 1..MaxJobs : encryptCapsuleContent(j)
    \/ \E id \in 1..MaxCapsules, content \in Contents, applied \in BOOLEAN,
          salt \in Salts, iv \in IVs : updateCapsule(id, content, applied, salt, iv)

\* saving capsules and reading them back, intact or altered
ReadNext ==
    \* outcome: how the store treats the promise the creating hook returns.
    \* It waits for it before writing the record, writes the record as it is
    \* when the hook returns, or refuses the value and fails the add
    \/ \E content \in Contents, isEncrypted \in BOOLEAN,
          outcome \in {"awaited", "notAwaited", "rejected"},
          salt \in Salts, iv \in IVs :
          saveCapsuleWithAudio(content, isEncrypted, outcome, salt, iv)
    \/ \E j \in 1..MaxJobs, ok \in BOOLEAN : HookStoreKey(j, ok)
    \/ \E j \in 1..MaxJobs : HookEncryptReturn(j)
    \/ \E j \in 1..MaxJobs : encryptCapsuleContent(j)
    \/ \E id \in 1..MaxCapsules : ReadCapsule(id)
    \* the stored encryptedContent altered: a base64 field of the blob, or the
    \* text as a whole, to whitespace or to something that is not JSON
    \/ \E id \in 1..MaxCapsules,
          field \in {"encryptedData", "salt", "iv", "text"},
          how \in {"flip", "badchar", "space", "empty", "blank", "badjson"} :
          ReadAltered(id, field, how)

----------------------------------------------------------------------------
(* useVoice.cloneVoice and generateSpeech (src/hooks/useVoice.ts),        *)
(* VoiceManager.testModel (src/lib/voice/voice-manager.ts) and the table  *)
(* voiceModels with its creating hook (src/lib/db/database.ts, 391-460)   *)

requiredSamples == 3
maxFileSize == 10 * 1024 * 1024
MinSampleSize == 1000
MaxTextLength == 5000

substring(s, from, to) == SubSeq(s, from + 1, IF to < Len(s) THEN to ELSE Len(s))

\* \w of a JavaScript regular expression without the u flag
isWordChar(u) ==
    \/ (u >= 48 /\ u <= 57) \/ (u >= 65 /\ u <= 90) \/ (u >= 97 /\ u <= 122)
    \/ u = 95

sanitizeName(input) ==
    LET
        \* replace(/[^\w\s'-]/g, '')
        RECURSIVE keepNameChars(_)
        keepNameChars(s) ==
            IF s = <<>> THEN <<>>
            ELSE IF isWordChar(Head(s)) \/ isJsWhitespace(Head(s)) \/ Head(s) \in {39, 45}
                 THEN <<Head(s)>> \o keepNameChars(Tail(s))
                 ELSE keepNameChars(Tail(s))
    IN
        substring(collapseWhitespace(keepNameChars(trim(input))), 0, 100)

sanitizeVoiceModel(model) ==
    [model EXCEPT !.name = sanitizeName(model.name),
                  !.modelId = sanitizeName(model.modelId)]

validateVoiceModel(model) ==
    LET
        \* VoiceModelSchema, field name: min 2, max 50, /^[a-zA-Z0-9\s'-]+$/
        validVoiceName(name) ==
            /\ Len(name) >= 2
            /\ Len(name) <= 50
            /\ \A i \in 1..Len(name) :
                  \/ (isWordChar(name[i]) /\ name[i] # 95)
                  \/ isJsWhitespace(name[i])
                  \/ name[i] \in {39, 45}
        \* BlobSchema: more than 0 and less than 50 MB
        validBlob(size) == size > 0 /\ size < 50 * 1024 * 1024
    IN
        /\ Len(model.modelId) >= 1
        /\ validVoiceName(model.name)
        /\ Len(model.sampleBlobs) >= 3
        /\ \A i \in 1..Len(model.sampleBlobs) : validBlob(model.sampleBlobs[i])
        /\ model.quality \in {"high", "medium", "low"}

\* the size of a sample blob the checks accept
GoodSize == 2000

\* `local_${Date.now()}_${random}`: "local_", a digit and "_x"; each call
\* gets a time or a random part no earlier call got
localId(n) == <<108, 111, 99, 97, 108, 95, 48 + n, 95, 120>>

\* the voice_id the service answers with: "v" and a digit
remoteId(n) == <<118, 48 + n>>

UnknownId == <<122>>
NoId == <<>>

\* cloneVoice up to the call of elevenLabsClient.cloneVoice
cloneVoice(c, name, samples) ==
    LET
        firstBad ==
            CHOOSE i \in 1..Len(samples) :
                /\ (samples[i] < MinSampleSize \/ samples[i] > maxFileSize)
                /\ \A k \in 1..(i - 1) : ~(samples[k] < MinSampleSize \/ samples[k] > maxFileSize)
        reject(e) == clones' = [clones EXCEPT ![c].pc = "rejected", ![c].err = e,
                                              ![c].name = name, ![c].samples = samples]
    IN /\ clones[c].pc = "idle"
       /\ \A k \in 1..(c - 1) : clones[k].pc # "idle"
       /\ IF name = <<>> \/ trim(name) = <<>>
          THEN reject(<<"Voice name is required for cloning">>)
          ELSE IF samples = <<>>
          THEN reject(<<"Voice samples are required for cloning">>)
          ELSE IF Len(samples) < requiredSamples
          THEN reject(<<"At least 3 voice samples are required for quality cloning">>)
          ELSE IF \E i \in 1..Len(samples) :
                    samples[i] < MinSampleSize \/ samples[i] > maxFileSize
          THEN LET i == firstBad IN
               reject(<<"Voice Cloning Error: ",
                        IF samples[i] = 0 THEN "Voice sample is empty or corrupted"
                        ELSE IF samples[i] < MinSampleSize
                        THEN "Voice sample is too short for quality cloning"
                        ELSE "Voice sample is too large", i>>)
          ELSE clones' = [clones EXCEPT ![c].pc = "remote", ![c].name = name,
                                         ![c].samples = samples]
       /\ UNCHANGED <<voiceModels, idsMade, synth>>
       \* setIsProcessing(true), and setIsProcessing(false) where the call ends
       /\ isProcessing' = (clones'[c].pc = "remote")
       /\ UNCHANGED nonVoiceVars

\* elevenLabsClient.cloneVoice settles: with a voice id, or with an error
\* (no API key, network, quota, service error), after which cloneVoice
\* makes a local id; then db.voiceModels.add is called
RemoteCloneSettles(c, ok) ==
    /\ clones[c].pc = "remote"
    /\ clones' = [clones EXCEPT ![c].pc = "saving",
                                ![c].modelId = IF ok THEN remoteId(c) ELSE localId(idsMade + 1),
                                ![c].isElevenLabsModel = ok]
    /\ idsMade' = IF ok THEN idsMade ELSE idsMade + 1
    /\ UNCHANGED <<voiceModels, synth, isProcessing>>
    /\ UNCHANGED nonVoiceVars

\* db.voiceModels.add settles: the creating hook sanitizes and validates
\* and throws on an invalid record; the store writes every record the hook
\* accepts; cloneVoice returns the id or rejects
VoiceModelAddSettles(c) ==
    LET call == clones[c]
        obj == sanitizeVoiceModel(
                  [modelId |-> call.modelId, name |-> trim(call.name),
                   sampleBlobs |-> call.samples, isActive |-> TRUE,
                   isElevenLabsModel |-> call.isElevenLabsModel,
                   quality |-> IF call.isElevenLabsModel THEN "high" ELSE "medium"])
    IN /\ call.pc = "saving"
       /\ IF validateVoiceModel(obj)
          THEN /\ voiceModels' = Append(voiceModels, obj)
               /\ clones' = [clones EXCEPT ![c].pc = "resolved"]
          ELSE /\ clones' = [clones EXCEPT
                    ![c].pc = "rejected",
                    ![c].err = <<"Voice Cloning Error: ",
                                 "Failed to save voice model. Please try again.">>]
               /\ UNCHANGED voiceModels
       /\ UNCHANGED <<idsMade, synth>>
       \* finally: setIsProcessing(false)
       /\ isProcessing' = FALSE
       /\ UNCHANGED nonVoiceVars

\* the catch block of VoiceCloneSetup.processVoiceClone, entered when
\* cloneVoice(voiceName, audioBlobs) rejected: db.voiceModels.add of a local
\* record with the id `local_${Date.now()}` and quality 'low', which the
\* creating hook sanitizes and validates like every other record
processVoiceCloneCatch(c) ==
    LET call == clones[c]
        obj == sanitizeVoiceModel(
                  [modelId |-> <<108, 111, 99, 97, 108, 95, 48 + c>>,
                   name |-> call.name, sampleBlobs |-> call.samples,
                   isActive |-> TRUE, isElevenLabsModel |-> FALSE,
                   quality |-> "low"])
    IN /\ call.pc = "rejected"
       /\ call.fallback = "none"
       /\ IF validateVoiceModel(obj)
          THEN /\ voiceModels' = Append(voiceModels, obj)
               /\ clones' = [clones EXCEPT ![c].fallback = "stored"]
          ELSE /\ clones' = [clones EXCEPT ![c].fallback = "failed"]
               /\ UNCHANGED voiceModels
       /\ UNCHANGED <<idsMade, synth, isProcessing>>
       /\ UNCHANGED nonVoiceVars

\* db.voiceModels.where('modelId').equals(id).first()
RECURSIVE firstModel(_, _)
firstModel(models, id) ==
    IF models = <<>> THEN <<>>
    ELSE IF Head(models).modelId = id THEN <<Head(models)>>
    ELSE firstModel(Tail(models), id)

LocalUnsupported ==
    "Local voice synthesis is not yet available. Please use ElevenLabs voice models for speech generation."

NoSynth == [op |-> "none", pc |-> "idle", target |-> NoId, origin |-> "none",
            remoteCalls |-> 0, err |-> <<>>]

\* the voice ids handed to generateSpeech and testModel: the ids of the
\* stored models and one no model has; for generateSpeech the id is
\* voiceId || currentVoiceModel?.modelId, NoId when both are absent
TargetIds ==
    {NoId, UnknownId} \cup {voiceModels[i].modelId : i \in 1..Len(voiceModels)}

AllIds ==
    {NoId, UnknownId} \cup {localId(n) : n \in 1..MaxClones}
        \cup {remoteId(c) : c \in 1..MaxClones}

synthFree == synth.pc \in {"idle", "resolved", "rejected"}

\* generateSpeech up to the database query
generateSpeech(text, targetVoiceId) ==
    LET reject(e) == synth' = [NoSynth EXCEPT !.op = "generateSpeech",
                                              !.pc = "rejected", !.err = e]
    IN /\ synthFree
       /\ targetVoiceId \in TargetIds
       /\ IF text = <<>> \/ trim(text) = <<>>
          THEN reject(<<"Text is required for speech generation">>)
          ELSE IF Len(text) > MaxTextLength
          THEN reject(<<"Text is too long for speech generation (max 5000 characters)">>)
          ELSE IF targetVoiceId = NoId
          THEN reject(<<"Speech Generation Error: ",
                        "No voice model available for speech generation">>)
          ELSE synth' = [NoSynth EXCEPT !.op = "generateSpeech", !.pc = "lookup",
                                        !.target = targetVoiceId]
       /\ UNCHANGED <<voiceModels, idsMade, clones>>
       \* setIsProcessing(true), and setIsProcessing(false) where the call ends
       /\ isProcessing' = (synth'.pc = "lookup")
       /\ UNCHANGED nonVoiceVars

\* generateSpeech after the query, with every stored model taken for an
\* ElevenLabs model
SpeechLookupSettles_remoteForAll ==
    LET found == firstModel(voiceModels, synth.target)
        reject(e) == synth' = [synth EXCEPT !.pc = "rejected",
                                  !.err = <<"Speech Generation Error: ", e>>]
    IN /\ synth.op = "generateSpeech"
       /\ synth.pc = "lookup"
       /\ IF found = <<>> THEN reject("Voice model not found in database")
          ELSE IF ~found[1].isActive
          THEN synth' = [synth EXCEPT !.pc = "rejected",
                            !.origin = IF found[1].isElevenLabsModel THEN "remote" ELSE "local",
                            !.err = <<"Speech Generation Error: ", "Voice model is not active">>]
          ELSE synth' = [synth EXCEPT !.pc = "remote",
                            !.origin = IF found[1].isElevenLabsModel THEN "remote" ELSE "local",
                            !.remoteCalls = 1]
       /\ UNCHANGED <<voiceModels, idsMade, clones>>
       /\ isProcessing' = IF synth'.pc = "rejected" THEN FALSE ELSE isProcessing
       /\ UNCHANGED nonVoiceVars

\* generateSpeech after the query: the checks on the model found and, for
\* an ElevenLabs model, the call of elevenLabsClient.generateSpeech
SpeechLookupSettles ==
    LET found == firstModel(voiceModels, synth.target)
        reject(e) == synth' = [synth EXCEPT !.pc = "rejected",
                                  !.err = <<"Speech Generation Error: ", e>>]
    IN /\ synth.op = "generateSpeech"
       /\ synth.pc = "lookup"
       /\ IF found = <<>> THEN reject("Voice model not found in database")
          ELSE IF ~found[1].isActive
          THEN synth' = [synth EXCEPT !.pc = "rejected",
                            !.origin = IF found[1].isElevenLabsModel THEN "remote" ELSE "local",
                            !.err = <<"Speech Generation Error: ", "Voice model is not active">>]
          ELSE IF found[1].isElevenLabsModel
          THEN synth' = [synth EXCEPT !.pc = "remote", !.origin = "remote",
                                      !.remoteCalls = 1]
          ELSE synth' = [synth EXCEPT !.pc = "rejected", !.origin = "local",
                            !.err = <<"Speech Generation Error: ", LocalUnsupported>>]
       /\ UNCHANGED <<voiceModels, idsMade, clones>>
       /\ isProcessing' = IF synth'.pc = "rejected" THEN FALSE ELSE isProcessing
       /\ UNCHANGED nonVoiceVars

\* elevenLabsClient.generateSpeech settles for generateSpeech: with audio,
\* with an empty buffer, or with an error
SpeechRemoteSettles(outcome) ==
    /\ synth.op = "generateSpeech"
    /\ synth.pc = "remote"
    /\ synth' = IF outcome = "audio" THEN [synth EXCEPT !.pc = "resolved"]
                ELSE [synth EXCEPT !.pc = "rejected",
                         !.err = <<"Speech Generation Error: ",
                                   "Voice synthesis service is temporarily unavailable">>]
    /\ UNCHANGED <<voiceModels, idsMade, clones>>
    \* finally: setIsProcessing(false)
    /\ isProcessing' = FALSE
    /\ UNCHANGED nonVoiceVars

\* VoiceManager.testModel up to the database query
testModel(id) ==
    /\ synthFree
    /\ id \in TargetIds \ {NoId}
    /\ synth' = [NoSynth EXCEPT !.op = "testModel", !.pc = "lookup", !.target = id]
    /\ UNCHANGED <<voiceModels, idsMade, clones, isProcessing>>
    /\ UNCHANGED nonVoiceVars

\* testModel after the query; it resolves with {success: false, error} in
\* place of rejecting
TestLookupSettles ==
    LET found == firstModel(voiceModels, synth.target)
    IN /\ synth.op = "testModel"
       /\ synth.pc = "lookup"
       /\ IF found = <<>>
          THEN synth' = [synth EXCEPT !.pc = "resolved", !.err = <<"Voice model not found">>]
          ELSE IF ~found[1].isElevenLabsModel
          THEN synth' = [synth EXCEPT !.pc = "resolved", !.origin = "local",
                            !.err = <<"Local voice synthesis testing not yet supported">>]
          ELSE synth' = [synth EXCEPT !.pc = "remote", !.origin = "remote",
                                      !.remoteCalls = 1]
       /\ UNCHANGED <<voiceModels, idsMade, clones, isProcessing>>
       /\ UNCHANGED nonVoiceVars

TestRemoteSettles(ok) ==
    /\ synth.op = "testModel"
    /\ synth.pc = "remote"
    /\ synth' = [synth EXCEPT !.pc = "resolved",
                    !.err = IF ok THEN <<>> ELSE <<"Voice model test failed">>]
    /\ UNCHANGED <<voiceModels, idsMade, clones, isProcessing>>
    /\ UNCHANGED nonVoiceVars

\* the sample sets given to the two sample validations, as blob sizes
SampleSets ==
    {<<>>, <<GoodSize>>, <<GoodSize, GoodSize>>,
     <<GoodSize, GoodSize, GoodSize>>,
     <<0, GoodSize, GoodSize>>,
     <<GoodSize, GoodSize, MinSampleSize - 1>>,
     <<MinSampleSize, GoodSize, GoodSize>>,
     <<MinSampleSize, maxFileSize, GoodSize>>,
     <<GoodSize, maxFileSize, GoodSize>>,
     <<GoodSize, GoodSize, maxFileSize + 1>>,
     <<MinSampleSize - 1, GoodSize>>,
     <<GoodSize, MinSampleSize - 1, maxFileSize + 1>>}

\* voiceSamples collecting the message of every rule that fails
voiceSamples_aggregate(samples) ==
    LET msg == <<"Audio recording must be between 1KB and 10MB">>
        invalid == {i \in 1..Len(samples) :
                       ~(samples[i] > 1000 /\ samples[i] < 10 * 1024 * 1024)}
        sampleErrors ==
            [k \in 1..Cardinality(invalid) |->
                <<"Sample ", CHOOSE i \in invalid :
                                Cardinality({j \in invalid : j < i}) = k - 1, ": ">> \o msg]
        errors ==
            (IF Len(samples) >= 3 THEN <<>>
             ELSE << <<"At least 3 voice samples are required">> >>) \o sampleErrors
    IN /\ validation' = [done |-> TRUE, samples |-> samples,
                         res |-> [isValid |-> Len(errors) = 0, errors |-> errors]]
       /\ UNCHANGED <<mgrVars, cryptoVars, dbVars, voiceVars, gen, rec, subs, cfg, cleanup, settings>>

\* Validators.voiceSamples, called with the blobs given as their sizes (no
\* blob is null): the minimum-length rule first, then validAudioBlob on each
\* sample up to the first one that fails
voiceSamples(samples) ==
    LET
        \* validate(value, rules), each rule already applied to the value
        validate(rules) ==
            LET failed == SelectSeq(rules, LAMBDA r : ~r.holds)
                errors == [i \in 1..Len(failed) |-> failed[i].message]
            IN [isValid |-> Len(errors) = 0, errors |-> errors]
        minArrayLength(min, message) ==
            [holds |-> Len(samples) >= min, message |-> <<message>>]
        validAudioBlob(blob) ==
            [holds |-> blob > 1000 /\ blob < 10 * 1024 * 1024,
             message |-> <<"Audio recording must be between 1KB and 10MB">>]
        result ==
            validate(<<minArrayLength(3, "At least 3 voice samples are required")>>)
        sampleResult(i) == validate(<<validAudioBlob(samples[i])>>)
        invalid == {i \in 1..Len(samples) : ~sampleResult(i).isValid}
        first == CHOOSE i \in invalid : \A k \in invalid : i <= k
    IN /\ validation' =
             [done |-> TRUE, samples |-> samples,
              res |-> IF ~result.isValid THEN result
                      ELSE IF invalid # {}
                      THEN [isValid |-> FALSE,
                            errors |-> << <<"Sample ", first, ": ">>
                                          \o sampleResult(first).errors[1] >>]
                      ELSE [isValid |-> TRUE, errors |-> <<>>]]
       /\ UNCHANGED <<mgrVars, cryptoVars, dbVars, voiceVars, gen, rec, subs, cfg, cleanup, settings>>

VoiceNext ==
    \* the names " ", "A" and " Mom!"; the samples as the sizes of the blobs
    \/ \E c \in 1..MaxClones,
          name \in {<<32>>, <<65>>, <<32, 77, 111, 109, 33>>},
          samples \in {<<>>, <<GoodSize, GoodSize>>,
                       <<GoodSize, GoodSize, GoodSize>>,
                       <<GoodSize, GoodSize, MinSampleSize - 1>>} :
          cloneVoice(c, name, samples)
    \/ \E c \in 1..MaxClones, ok \in BOOLEAN : RemoteCloneSettles(c, ok)
    \/ \E c \in 1..MaxClones : VoiceModelAddSettles(c)
    \* the texts "", " ", "hi" and one of MaxTextLength + 1 characters
    \/ \E text \in {<<>>, <<32>>, <<104, 105>>, Rep(97, MaxTextLength + 1)},
          id \in AllIds :
          generateSpeech(text, id)
    \/ SpeechLookupSettles
    \/ \E outcome \in {"audio", "empty", "error"} : SpeechRemoteSettles(outcome)
    \/ \E id \in AllIds : testModel(id)
    \/ TestLookupSettles
    \/ \E ok \in BOOLEAN : TestRemoteSettles(ok)

\* the two sample validations, applied to sample sets with 0, 1, 2 and 3
\* samples whose sizes lie at and beside the limits; the name "A"
SamplesNext ==
    \/ \E samples \in SampleSets : voiceSamples(samples)
    \/ \E c \in 1..MaxClones, samples \in SampleSets :
          cloneVoice(c, <<65>>, samples)

----------------------------------------------------------------------------
(* VoiceManager: validateModel and cleanupModels.  An issue is the text of *)
(* the message, a sequence of characters, since cleanupModels selects the  *)
(* critical issues by the words a message includes.  A stored record has   *)
(* one entry of samples for each of its sampleBlobs.                       *)

\* validateModel(modelId), given the table and what getVoices() did
validateModel(models, modelId, voices) ==
    LET found == firstModel(models, modelId)
        model == found[1]
        digit(i) == <<"0", "1", "2", "3", "4", "5", "6", "7", "8", "9">>[i + 1]
        Sample == <<"S", "a", "m", "p", "l", "e", " ">>
        noName ==
            IF model.name = <<>> \/ trim(model.name) = <<>>
            THEN <<<<"V", "o", "i", "c", "e", " ", "m", "o", "d", "e", "l",
                     " ", "h", "a", "s", " ", "n", "o", " ", "n", "a", "m",
                     "e">>>>
            ELSE <<>>
        noSamples ==
            IF Len(model.sampleBlobs) = 0
            THEN <<<<"V", "o", "i", "c", "e", " ", "m", "o", "d", "e", "l",
                     " ", "h", "a", "s", " ", "n", "o", " ", "s", "a", "m",
                     "p", "l", "e", "s">>>>
            ELSE <<>>
        insufficient ==
            IF Len(model.sampleBlobs) < 3
            THEN <<<<"V", "o", "i", "c", "e", " ", "m", "o", "d", "e", "l",
                     " ", "h", "a", "s", " ", "i", "n", "s", "u", "f", "f",
                     "i", "c", "i", "e", "n", "t", " ", "s", "a", "m", "p",
                     "l", "e", "s", " ", "(", "m", "i", "n", "i", "m", "u",
                     "m", " ", "3", " ", "r", "e", "q", "u", "i", "r", "e",
                     "d", ")">>>>
            ELSE <<>>
        RECURSIVE blobs(_)
        blobs(i) ==
            IF i > Len(model.sampleBlobs) THEN <<>>
            ELSE (IF model.sampleBlobs[i] = 0
                  THEN <<Sample \o <<digit(i)>>
                         \o <<" ", "i", "s", " ", "e", "m", "p", "t", "y",
                              " ", "o", "r", " ", "c", "o", "r", "r", "u",
                              "p", "t", "e", "d">>>>
                  ELSE IF model.sampleBlobs[i] < 1000
                  THEN <<Sample \o <<digit(i)>>
                         \o <<" ", "i", "s", " ", "t", "o", "o", " ", "s",
                              "h", "o", "r", "t", " ", "(", "l", "e", "s",
                              "s", " ", "t", "h", "a", "n", " ", "1", "K",
                              "B", ")">>>>
                  ELSE <<>>) \o blobs(i + 1)
        service ==
            IF ~model.isElevenLabsModel THEN <<>>
            ELSE IF ~voices.ok
            THEN <<<<"U", "n", "a", "b", "l", "e", " ", "t", "o", " ", "v",
                     "e", "r", "i", "f", "y", " ", "E", "l", "e", "v", "e",
                     "n", "L", "a", "b", "s", " ", "v", "o", "i", "c", "e",
                     " ", "m", "o", "d", "e", "l", " ", "(", "s", "e", "r",
                     "v", "i", "c", "e", " ", "m", "a", "y", " ", "b", "e",
                     " ", "u", "n", "a", "v", "a", "i", "l", "a", "b", "l",
                     "e", ")">>>>
            ELSE IF modelId \notin voices.val
            THEN <<<<"E", "l", "e", "v", "e", "n", "L", "a", "b", "s", " ",
                     "v", "o", "i", "c", "e", " ", "m", "o", "d", "e", "l",
                     " ", "n", "o", " ", "l", "o", "n", "g", "e", "r", " ",
                     "e", "x", "i", "s", "t", "s", " ", "o", "n", " ", "t",
                     "h", "e", " ", "s", "e", "r", "v", "i", "c", "e">>>>
            ELSE <<>>
        issues == noName \o noSamples \o insufficient \o blobs(1) \o service
    IN IF found = <<>>
       THEN [isValid |-> FALSE,
             issues |-> <<<<"V", "o", "i", "c", "e", " ", "m", "o", "d", "e",
                            "l", " ", "n", "o", "t", " ", "f", "o", "u", "n",
                            "d">>>>]
       ELSE [isValid |-> issues = <<>>, issues |-> issues]

\* one call of cleanupModels at a time, on a table that cloneVoice and the
\* fallback of processVoiceClone fill
CleanupNext ==
    LET
        \* elevenLabsClient.getVoices(): [] without an API key, an error when
        \* fetch rejects or the response is not ok, else the voices listed
        getVoices(hasKey, response) ==
            IF ~hasKey THEN Ok({})
            ELSE IF response.error THEN Throws("Failed to fetch voices")
            ELSE Ok(response.voices)
        isCritical(issue) ==
            \/ Includes(issue, <<"n", "o", "t", " ", "f", "o", "u", "n", "d">>)
            \/ Includes(issue, <<"c", "o", "r", "r", "u", "p", "t", "e", "d">>)
            \/ Includes(issue, <<"n", "o", " ", "l", "o", "n", "g", "e", "r",
                                 " ", "e", "x", "i", "s", "t", "s">>)
        \* const allModels = await db.voiceModels.toArray()
        cleanupModels ==
            /\ cleanup.pc \in {"idle", "done"}
            /\ cleanup' = [pc |-> IF voiceModels = <<>> THEN "done" ELSE "running",
                           allModels |-> voiceModels, i |-> 1,
                           cleaned |-> 0, errors |-> 0, log |-> <<>>]
            /\ UNCHANGED voiceVars
        \* one round of the loop: validateModel, the filter and, on a critical
        \* issue, db.deleteVoiceModel, which throws when no record has the id.
        \* No other operation removes or changes a record, so the awaits of
        \* the round are taken in one step.
        round(hasKey, response) ==
            LET model == cleanup.allModels[cleanup.i]
                result == validateModel(voiceModels, model.modelId,
                                            getVoices(hasKey, response))
                critical == \E k \in 1..Len(result.issues) :
                               isCritical(result.issues[k])
                present == firstModel(voiceModels, model.modelId) # <<>>
                last == cleanup.i = Len(cleanup.allModels)
            IN /\ cleanup.pc = "running"
               /\ voiceModels' =
                     IF critical /\ present
                     THEN SelectSeq(voiceModels, LAMBDA m : m.modelId # model.modelId)
                     ELSE voiceModels
               /\ cleanup' =
                     [cleanup EXCEPT
                        !.pc = IF last THEN "done" ELSE "running",
                        !.i = @ + 1,
                        !.cleaned = IF critical /\ present THEN @ + 1 ELSE @,
                        !.errors = IF critical /\ ~present THEN @ + 1 ELSE @,
                        !.log = Append(@, [model |-> model, present |-> present,
                                           hasKey |-> hasKey, response |-> response,
                                           deleted |-> critical /\ present])]
               /\ UNCHANGED <<idsMade, clones, synth, isProcessing>>
    IN
    \* the name "Mom"; three good samples, or a third one of 999 bytes
    \/ \E c \in 1..MaxClones,
          samples \in {<<GoodSize, GoodSize, GoodSize>>,
                       <<GoodSize, GoodSize, MinSampleSize - 1>>} :
          /\ cloneVoice(c, <<77, 111, 109>>, samples)
          /\ UNCHANGED cleanup
    \/ \E c \in 1..MaxClones, ok \in BOOLEAN :
          RemoteCloneSettles(c, ok) /\ UNCHANGED cleanup
    \/ \E c \in 1..MaxClones : VoiceModelAddSettles(c) /\ UNCHANGED cleanup
    \/ \E c \in 1..MaxClones : processVoiceCloneCatch(c) /\ UNCHANGED cleanup
    \/ cleanupModels
         /\ UNCHANGED <<mgrVars, cryptoVars, dbVars, gen, validation, rec, subs, cfg, settings>>
    \* the service fails, or answers with no voice, with the first voice made
    \* or with every voice made
    \/ \E hasKey \in BOOLEAN,
          response \in {[error |-> TRUE, voices |-> {}]}
                         \cup {[error |-> FALSE, voices |-> v] :
                                 v \in {{}, {remoteId(1)},
                                        {remoteId(c) : c \in 1..MaxClones}}} :
          round(hasKey, response)
            /\ UNCHANGED <<mgrVars, cryptoVars, dbVars, gen, validation, rec, subs, cfg, settings>>

----------------------------------------------------------------------------
(* LivingHeirloomDB: getUserSettings and updateUserSettings.  The table    *)
(* settings has the schema '++id, userId, updatedAt': userId is indexed,   *)
(* not unique.  Of a record the user id and preferences.enableAI are kept. *)
(* Each caller makes one call at a time; the caller of initializeApp in    *)
(* useAppInitialization is one of them.                                    *)

NSettingsCallers == 2

\* this.settings.where('userId').equals(userId).first(): the id of the
\* first record of the user, 0 when there is none
firstSettings(table, userId) ==
    IF \E i \in 1..Len(table) : table[i].userId = userId
    THEN CHOOSE i \in 1..Len(table) :
            /\ table[i].userId = userId
            /\ \A j \in 1..(i - 1) : table[j].userId # userId
    ELSE 0

\* getUserSettings(userId) by caller k, and the same code run inside
\* updateUserSettings (op "update"), cut at its two awaits
getUserSettings(k, userId) ==
    LET call == settings.calls[k]
        existing == firstSettings(settings.table, call.userId)
    IN
    \* the call, up to `await ...first()`
    \/ /\ call.pc \in {"idle", "returned"}
       /\ settings' = [settings EXCEPT
             !.calls[k] = [op |-> "get", pc |-> "lookup", userId |-> userId,
                           updates |-> FALSE, existing |-> 0]]
    \* the query settles: return the record found, or call add with the
    \* default settings
    \/ /\ call.pc = "lookup"
       /\ userId = call.userId
       /\ settings' = [settings EXCEPT
             !.calls[k].existing = existing,
             !.calls[k].pc = IF existing # 0
                             THEN (IF call.op = "get" THEN "returned" ELSE "ulookup")
                             ELSE "adding"]
    \* add settles: the table has one more record
    \/ /\ call.pc = "adding"
       /\ userId = call.userId
       /\ settings' = [settings EXCEPT
             !.table = Append(@, [userId |-> call.userId, enableAI |-> TRUE]),
             !.calls[k].existing = Len(settings.table) + 1,
             !.calls[k].pc = IF call.op = "get" THEN "returned" ELSE "ulookup"]

\* updateUserSettings(userId, { preferences: { enableAI: updates } }) by
\* caller k, cut at its awaits; without a record it runs getUserSettings and
\* then itself again
updateUserSettings(k, userId, updates) ==
    LET call == settings.calls[k]
        existing == firstSettings(settings.table, call.userId)
    IN
    \* the call, up to `await ...first()`
    \/ /\ call.pc \in {"idle", "returned"}
       /\ settings' = [settings EXCEPT
             !.calls[k] = [op |-> "update", pc |-> "ulookup", userId |-> userId,
                           updates |-> updates, existing |-> 0]]
    \* the query settles: update the record found, or create the defaults
    \/ /\ call.pc = "ulookup"
       /\ userId = call.userId /\ updates = call.updates
       /\ settings' = [settings EXCEPT
             !.calls[k].existing = existing,
             !.calls[k].pc = IF existing # 0 THEN "updating" ELSE "lookup"]
    \* this.settings.update(existing.id, ...) settles
    \/ /\ call.pc = "updating"
       /\ userId = call.userId /\ updates = call.updates
       /\ settings' = [settings EXCEPT
             !.table[call.existing].enableAI = call.updates,
             !.calls[k].pc = "returned"]

\* the user ids 'default' and the one of this browser; callers that start
\* calls while the calls of the others are waiting for the database
SettingsNext ==
    \/ \E k \in 1..NSettingsCallers, userId \in {"default", "user_1"} :
          /\ getUserSettings(k, userId)
          /\ UNCHANGED <<mgrVars, cryptoVars, dbVars, voiceVars, gen, validation, rec, subs, cfg, cleanup>>
    \/ \E k \in 1..NSettingsCallers, userId \in {"default", "user_1"},
          updates \in BOOLEAN :
          /\ updateUserSettings(k, userId, updates)
          /\ UNCHANGED <<mgrVars, cryptoVars, dbVars, voiceVars, gen, validation, rec, subs, cfg, cleanup>>

----------------------------------------------------------------------------
(* Recording: startRecording, stopRecording, the handlers of MediaRecorder *)
(* and the unmount cleanup, in the hook useVoice and in the component      *)
(* VoiceRecorder.  A stream is "live" while one of its tracks runs.  The   *)
(* timers, the object URLs and the playback are left out.                  *)

MaxStreams == 2

\* streamRef.current.getTracks().forEach(track => track.stop()) when
\* streamRef.current is set; a MediaRecorder whose stream ends stops and
\* its stop event is queued.  clear: streamRef.current = null follows
stopTracks(r, clear) ==
    IF r.streamRef = 0 THEN r
    ELSE [r EXCEPT
            !.streams[r.streamRef] = "stopped",
            !.recorders = [i \in 1..Len(r.recorders) |->
                             IF /\ r.recorders[i].stream = r.streamRef
                                /\ r.recorders[i].state = "recording"
                             THEN [r.recorders[i] EXCEPT !.state = "stopping"]
                             ELSE r.recorders[i]],
            !.streamRef = IF clear THEN 0 ELSE r.streamRef]

\* the component that uses the hook, or VoiceRecorder, is mounted
Mount(comp) ==
    /\ rec.comp = "none"
    /\ rec' = [rec EXCEPT !.comp = comp, !.mounted = TRUE]
    /\ UNCHANGED <<mgrVars, cryptoVars, dbVars, voiceVars, gen, validation, subs, cfg, cleanup, settings>>

\* startRecording up to `await navigator.mediaDevices.getUserMedia(...)`;
\* nothing in it looks at isRecording or at the refs
startRecording ==
    /\ rec.mounted
    /\ rec.pc = "idle"
    /\ Len(rec.streams) < MaxStreams
    /\ rec' = [rec EXCEPT !.pc = "getUserMedia", !.error = FALSE]
    /\ UNCHANGED <<mgrVars, cryptoVars, dbVars, voiceVars, gen, validation, subs, cfg, cleanup, settings>>

\* getUserMedia settles and startRecording runs to its end.  "denied": it
\* rejects.  "recorderThrows": the stream is stored in streamRef and
\* `new MediaRecorder` or start() throws.  "started": the recorder is
\* stored in mediaRecorderRef and started.  The catch block sets the error
GetUserMediaSettles(outcome) ==
    LET k == Len(rec.streams) + 1
        acquired == [rec EXCEPT !.pc = "idle",
                                !.streams = Append(rec.streams, "live"),
                                !.streamRef = k]
    IN /\ rec.pc = "getUserMedia"
       /\ rec' =
             CASE outcome = "denied" ->
                     [rec EXCEPT !.pc = "idle", !.error = TRUE]
               [] outcome = "recorderThrows" ->
                     [acquired EXCEPT !.error = TRUE]
               [] outcome = "started" ->
                     [acquired EXCEPT
                        !.recorders = Append(rec.recorders,
                                             [stream |-> k, state |-> "recording"]),
                        !.mediaRecorderRef = Len(rec.recorders) + 1,
                        !.isRecording = TRUE]
       /\ UNCHANGED <<mgrVars, cryptoVars, dbVars, voiceVars, gen, validation, subs, cfg, cleanup, settings>>

\* stopRecording: mediaRecorderRef.current.stop() queues the stop event of
\* a recorder that is recording
stopRecording ==
    LET r == rec.mediaRecorderRef IN
    /\ rec.mounted
    /\ r # 0
    /\ rec.isRecording
    /\ rec' = [rec EXCEPT
                 !.recorders[r].state =
                     IF @ = "recording" THEN "stopping" ELSE @,
                 !.isRecording = FALSE]
    /\ UNCHANGED <<mgrVars, cryptoVars, dbVars, voiceVars, gen, validation, subs, cfg, cleanup, settings>>

\* mediaRecorder.onstop of recorder r, the recording having size bytes.
\* useVoice stops the tracks of streamRef.current; VoiceRecorder returns
\* before that when the recording is too short or too large
OnStop(r, size) ==
    LET stopped == [rec EXCEPT !.recorders[r].state = "inactive"] IN
    /\ r \in 1..Len(rec.recorders)
    /\ rec.recorders[r].state = "stopping"
    /\ rec' = IF rec.comp = "VoiceRecorder" /\ (size < 1000 \/ size > 10 * 1024 * 1024)
              THEN [stopped EXCEPT !.error = TRUE]
              ELSE stopTracks(stopped, TRUE)
    /\ UNCHANGED <<mgrVars, cryptoVars, dbVars, voiceVars, gen, validation, subs, cfg, cleanup, settings>>

\* the recorder r fails while recording: it stops, its error event and then
\* its stop event are fired; only VoiceRecorder has an onerror handler
RecorderError(r) ==
    /\ r \in 1..Len(rec.recorders)
    /\ rec.recorders[r].state = "recording"
    /\ rec' = [rec EXCEPT !.recorders[r].state = "stopping",
                          !.error = (rec.comp = "VoiceRecorder") \/ @]
    /\ UNCHANGED <<mgrVars, cryptoVars, dbVars, voiceVars, gen, validation, subs, cfg, cleanup, settings>>

\* the cleanup of the effect at unmount: useVoice stops the tracks of
\* streamRef.current, VoiceRecorder clears its timer and its URL only
Unmount ==
    /\ rec.mounted
    /\ rec' = [(IF rec.comp = "useVoice" THEN stopTracks(rec, FALSE) ELSE rec)
                  EXCEPT !.mounted = FALSE]
    /\ UNCHANGED <<mgrVars, cryptoVars, dbVars, voiceVars, gen, validation, subs, cfg, cleanup, settings>>

RecordNext ==
    \/ \E comp \in {"useVoice", "VoiceRecorder"} : Mount(comp)
    \/ startRecording
    \/ \E outcome \in {"denied", "recorderThrows", "started"} :
          GetUserMediaSettles(outcome)
    \/ stopRecording
    \* recordings of MinSampleSize - 1 bytes, GoodSize and maxFileSize + 1
    \/ \E r \in 1..MaxStreams, size \in {MinSampleSize - 1, GoodSize, maxFileSize + 1} :
          OnStop(r, size)
    \/ \E r \in 1..MaxStreams : RecorderError(r)
    \/ Unmount

----------------------------------------------------------------------------
(* WebLLMManager: onProgress, the function it returns and the delivery of  *)
(* notifyProgress.  The callbacks are the functions 1..NSubscribers; the   *)
(* broadcasts are numbered in the order notifyProgress is called.          *)

NSubscribers == 2
MaxBroadcasts == 2

\* onProgress(cb): the callback is pushed, registered or not before
onProgress(cb) ==
    /\ Len(subs.progressCallbacks) < NSubscribers
    /\ subs' = [subs EXCEPT !.progressCallbacks = Append(@, cb),
                            !.status[cb] = "subscribed"]
    /\ UNCHANGED <<mgrVars, cryptoVars, dbVars, voiceVars, gen, validation, rec, cfg, cleanup, settings>>

\* the returned function dropping the callback registered last
Unsubscribe_popsLast(cb) ==
    /\ subs.status[cb] # "never"
    /\ subs' = [subs EXCEPT
                  !.progressCallbacks =
                      IF @ = <<>> THEN @ ELSE SubSeq(@, 1, Len(@) - 1),
                  !.status[cb] = "unsubscribed"]
    /\ UNCHANGED <<mgrVars, cryptoVars, dbVars, voiceVars, gen, validation, rec, cfg, cleanup, settings>>

\* the function an onProgress(cb) call returned is called:
\* progressCallbacks.filter(c => c !== callback)
Unsubscribe(cb) ==
    /\ subs.status[cb] # "never"
    /\ subs' = [subs EXCEPT
                  !.progressCallbacks = SelectSeq(@, LAMBDA c : c # cb),
                  !.status[cb] = "unsubscribed"]
    /\ UNCHANGED <<mgrVars, cryptoVars, dbVars, voiceVars, gen, validation, rec, cfg, cleanup, settings>>

\* notifyProgress delivers broadcast number sent + 1: forEach over
\* progressCallbacks, once per registration, then the 'ai-progress' event
Broadcast ==
    LET n == subs.sent + 1
        times(cb) == Len(SelectSeq(subs.progressCallbacks, LAMBDA c : c = cb))
    IN /\ subs.sent < MaxBroadcasts
       /\ subs' = [subs EXCEPT
                     !.sent = n,
                     !.got = [cb \in 1..NSubscribers |->
                                subs.got[cb] \o [i \in 1..times(cb) |-> n]],
                     !.channel = Append(@, n)]
       /\ UNCHANGED <<mgrVars, cryptoVars, dbVars, voiceVars, gen, validation, rec, cfg, cleanup, settings>>

ProgressNext ==
    \/ \E cb \in 1..NSubscribers : onProgress(cb)
    \/ \E cb \in 1..NSubscribers : Unsubscribe(cb)
    \/ Broadcast

----------------------------------------------------------------------------
(* config.ts: createConfig.  An object is [kind |-> "obj", f |-> a function *)
(* from its keys to values], any other value is [kind |-> "val", v |-> an   *)
(* integer], booleans being 1 and 0.  Of AppConfig the sections features,  *)
(* ai and ui are kept, with two, two and one of their settings.            *)

defaultConfig ==
    [kind |-> "obj",
     f |-> [features |-> [kind |-> "obj",
                          f |-> [enableAI |-> [kind |-> "val", v |-> 1],
                                 enableAnalytics |-> [kind |-> "val", v |-> 0]]],
            ai |-> [kind |-> "obj",
                    f |-> [maxTokens |-> [kind |-> "val", v |-> 800],
                           timeoutMs |-> [kind |-> "val", v |-> 120000]]],
            ui |-> [kind |-> "obj",
                    f |-> [animations |-> [kind |-> "val", v |-> 1]]]]]

\* mergeDeep(target, source): a copy of target in which every key of source
\* is set, an object of source being merged into what target holds under
\* the key
RECURSIVE mergeDeep(_, _)
mergeDeep(dst, source) ==
    LET t == IF dst.kind = "obj" THEN dst.f ELSE [k \in {} |-> 0]
        held(key) == IF key \in DOMAIN t /\ t[key] # [kind |-> "val", v |-> 0]
                     THEN t[key] ELSE [kind |-> "obj", f |-> [k \in {} |-> 0]]
    IN [kind |-> "obj",
        f |-> [key \in DOMAIN t \cup DOMAIN source.f |->
                 IF key \notin DOMAIN source.f THEN t[key]
                 ELSE IF source.f[key].kind = "obj"
                 THEN mergeDeep(held(key), source.f[key])
                 ELSE source.f[key]]]

\* createConfig, given the variables of import.meta.env as strings of code
\* units (<<>>: not set) and the item 'living-heirloom-preferences' of
\* localStorage as the value JSON.parse gives ("absent": no item,
\* "badjson": JSON.parse throws)
createConfig(env, stored) ==
    LET
        RECURSIVE digits(_)
        digits(str) == IF str = <<>> THEN 0
                       ELSE 10 * digits(SubSeq(str, 1, Len(str) - 1))
                            + (str[Len(str)] - 48)
        \* parseInt of a string of decimal digits
        parseInt(str) == digits(str)
        bool(b) == [kind |-> "val", v |-> IF b THEN 1 ELSE 0]
        \* 'false' and 'true'
        false == <<102, 97, 108, 115, 101>>
        true == <<116, 114, 117, 101>>
        getEnvironmentConfig ==
            [kind |-> "obj",
             f |-> [features |->
                       [kind |-> "obj",
                        f |-> [enableAI |-> bool(env.VITE_ENABLE_AI # false),
                               enableAnalytics |->
                                   bool(env.VITE_ENABLE_ANALYTICS = true)]],
                    ai |->
                       [kind |-> "obj",
                        f |-> [timeoutMs |->
                                  IF env.VITE_AI_TIMEOUT_MS # <<>>
                                  THEN [kind |-> "val",
                                        v |-> parseInt(env.VITE_AI_TIMEOUT_MS)]
                                  ELSE defaultConfig.f.ai.f.timeoutMs]]]]
        getUserPreferences ==
            IF stored.kind = "json" THEN stored.val
            ELSE [kind |-> "obj", f |-> [k \in {} |-> 0]]
        envConfig == mergeDeep(defaultConfig, getEnvironmentConfig)
        userConfig == mergeDeep(defaultConfig, getUserPreferences)
        \* { ...defaultConfig, ...envConfig, ...userConfig }
        spread ==
            [key \in DOMAIN defaultConfig.f \cup DOMAIN envConfig.f
                        \cup DOMAIN userConfig.f |->
                IF key \in DOMAIN userConfig.f THEN userConfig.f[key]
                ELSE IF key \in DOMAIN envConfig.f THEN envConfig.f[key]
                ELSE defaultConfig.f[key]]
    IN /\ cfg' = [done |-> TRUE, env |-> env, stored |-> stored,
                  config |-> [kind |-> "obj", f |-> spread]]
       /\ UNCHANGED <<mgrVars, cryptoVars, dbVars, voiceVars, gen, validation, rec, subs, cleanup, settings>>

ConfigNext ==
    \* the environment: each variable not set, 'true' or 'false', the
    \* timeout not set or '5000'; the stored preferences: none, text that is
    \* not JSON, {}, and objects that give one setting or two
    \E ai \in {<<>>, <<116, 114, 117, 101>>, <<102, 97, 108, 115, 101>>},
       analytics \in {<<>>, <<116, 114, 117, 101>>, <<102, 97, 108, 115, 101>>},
       timeout \in {<<>>, <<53, 48, 48, 48>>},
       stored \in
         {[kind |-> "absent", val |-> [kind |-> "val", v |-> 0]],
          [kind |-> "badjson", val |-> [kind |-> "val", v |-> 0]]}
         \cup {[kind |-> "json", val |-> [kind |-> "obj", f |-> o]] :
                 o \in {[k \in {} |-> 0],
                        [ai |-> [kind |-> "obj",
                                 f |-> [timeoutMs |-> [kind |-> "val", v |-> 60000]]]],
                        [features |-> [kind |-> "obj",
                                       f |-> [enableAnalytics |-> [kind |-> "val", v |-> 0]]]],
                        [ui |-> [kind |-> "obj",
                                 f |-> [animations |-> [kind |-> "val", v |-> 0]]]],
                        [features |-> [kind |-> "obj",
                                       f |-> [enableAI |-> [kind |-> "val", v |-> 1]]],
                         ai |-> [kind |-> "obj",
                                 f |-> [maxTokens |-> [kind |-> "val", v |-> 400]]]]}} :
        createConfig([VITE_ENABLE_AI |-> ai, VITE_ENABLE_ANALYTICS |-> analytics,
                      VITE_AI_TIMEOUT_MS |-> timeout], stored)

----------------------------------------------------------------------------
(* WebLLMManager: generateInterviewQuestion, generateTimeCapsuleContent    *)
(* and analyzeEmotionalState.  One call is followed at a time; it awaits   *)
(* initialize() as caller GenCaller.  What only goes into the prompt       *)
(* (previousResponses, currentQuestionIndex, length) is left out.  Strings *)
(* are sequences of UTF-16 code units; the input strings are ASCII.        *)

GenCaller == 1

\* String.prototype.toUpperCase and toLowerCase, on ASCII letters
toUpperCase(s) ==
    [i \in 1..Len(s) |-> IF s[i] >= 97 /\ s[i] <= 122 THEN s[i] - 32 ELSE s[i]]

toLowerCase(s) ==
    [i \in 1..Len(s) |-> IF s[i] >= 65 /\ s[i] <= 90 THEN s[i] + 32 ELSE s[i]]

\* undefined: response.choices[0]?.message?.content of an answer without
\* content, and a property that a result does not have
NoContent == <<-1>>

\* the objects the three operations return (AIResponse, the content object,
\* the emotion label), confidence in tenths
NoResult ==
    [kind |-> "none", content |-> <<>>, title |-> <<>>, confidence |-> 0,
     emotionalTone |-> <<>>, suggestions |-> NoContent, wordCount |-> 0]

\* a call: its arguments, where it stands, the error its catch block was
\* handed ("" for none) and what it returned
NoGen ==
    [op |-> "none", pc |-> "idle", emotionalState |-> <<>>,
     questionCategory |-> <<>>, responses |-> <<>>, tone |-> <<>>,
     text |-> <<>>, caught |-> "", res |-> NoResult]

\* what the code right after `await this.initialize()` throws: the rejection
\* of initialize(), or "AI not initialized" when this.engine is null
afterInitialize ==
    IF pc[GenCaller] = "rejected" THEN "initialize rejected"
    ELSE IF engine = 0 THEN "AI not initialized"
    ELSE ""

\* QUESTION_TEMPLATES: the template pool of each category, by key
QUESTION_TEMPLATES ==
    \* OPENING
    (<<79,80,69,78,73,78,71>> :> <<
        \* What's a moment from your life that still makes you smile when you think about it?
        <<87,104,97,116,39,115,32,97,32,109,111,109,101,110,116,32,102,114,
          111,109,32,121,111,117,114,32,108,105,102,101,32,116,104,97,116,32,
          115,116,105,108,108,32,109,97,107,101,115,32,121,111,117,32,115,109,
          105,108,101,32,119,104,101,110,32,121,111,117,32,116,104,105,110,
          107,32,97,98,111,117,116,32,105,116,63>>,
        \* If you could sit down with someone you love and share one story, what would it be?
        <<73,102,32,121,111,117,32,99,111,117,108,100,32,115,105,116,32,100,
          111,119,110,32,119,105,116,104,32,115,111,109,101,111,110,101,32,
          121,111,117,32,108,111,118,101,32,97,110,100,32,115,104,97,114,101,
          32,111,110,101,32,115,116,111,114,121,44,32,119,104,97,116,32,119,
          111,117,108,100,32,105,116,32,98,101,63>>,
        \* What's something about yourself that you hope people will always remember?
        <<87,104,97,116,39,115,32,115,111,109,101,116,104,105,110,103,32,97,
          98,111,117,116,32,121,111,117,114,115,101,108,102,32,116,104,97,116,
          32,121,111,117,32,104,111,112,101,32,112,101,111,112,108,101,32,119,
          105,108,108,32,97,108,119,97,121,115,32,114,101,109,101,109,98,101,
          114,63>>
       >>)
    \* MEMORIES
    @@ (<<77,69,77,79,82,73,69,83>> :> <<
        \* Tell me about a time when you felt most proud of yourself.
        <<84,101,108,108,32,109,101,32,97,98,111,117,116,32,97,32,116,105,109,
          101,32,119,104,101,110,32,121,111,117,32,102,101,108,116,32,109,111,
          115,116,32,112,114,111,117,100,32,111,102,32,121,111,117,114,115,
          101,108,102,46>>,
        \* What's a small, everyday moment that meant more to you than it might have seemed?
        <<87,104,97,116,39,115,32,97,32,115,109,97,108,108,44,32,101,118,101,
          114,121,100,97,121,32,109,111,109,101,110,116,32,116,104,97,116,32,
          109,101,97,110,116,32,109,111,114,101,32,116,111,32,121,111,117,32,
          116,104,97,110,32,105,116,32,109,105,103,104,116,32,104,97,118,101,
          32,115,101,101,109,101,100,63>>,
        \* Who has had the biggest impact on your life, and what did they teach you?
        <<87,104,111,32,104,97,115,32,104,97,100,32,116,104,101,32,98,105,103,
          103,101,115,116,32,105,109,112,97,99,116,32,111,110,32,121,111,117,
          114,32,108,105,102,101,44,32,97,110,100,32,119,104,97,116,32,100,
          105,100,32,116,104,101,121,32,116,101,97,99,104,32,121,111,117,63>>,
        \* What's a tradition or ritual that's been important to your family?
        <<87,104,97,116,39,115,32,97,32,116,114,97,100,105,116,105,111,110,32,
          111,114,32,114,105,116,117,97,108,32,116,104,97,116,39,115,32,98,
          101,101,110,32,105,109,112,111,114,116,97,110,116,32,116,111,32,121,
          111,117,114,32,102,97,109,105,108,121,63>>
       >>)
    \* WISDOM
    @@ (<<87,73,83,68,79,77>> :> <<
        \* What's one piece of advice you wish someone had given you when you were younger?
        <<87,104,97,116,39,115,32,111,110,101,32,112,105,101,99,101,32,111,
          102,32,97,100,118,105,99,101,32,121,111,117,32,119,105,115,104,32,
          115,111,109,101,111,110,101,32,104,97,100,32,103,105,118,101,110,32,
          121,111,117,32,119,104,101,110,32,121,111,117,32,119,101,114,101,32,
          121,111,117,110,103,101,114,63>>,
        \* What have you learned about love that you'd want to pass on?
        <<87,104,97,116,32,104,97,118,101,32,121,111,117,32,108,101,97,114,
          110,101,100,32,97,98,111,117,116,32,108,111,118,101,32,116,104,97,
          116,32,121,111,117,39,100,32,119,97,110,116,32,116,111,32,112,97,
          115,115,32,111,110,63>>,
        \* What mistake taught you the most valuable lesson?
        <<87,104,97,116,32,109,105,115,116,97,107,101,32,116,97,117,103,104,
          116,32,121,111,117,32,116,104,101,32,109,111,115,116,32,118,97,108,
          117,97,98,108,101,32,108,101,115,115,111,110,63>>,
        \* What do you know now that you wish you could tell your younger self?
        <<87,104,97,116,32,100,111,32,121,111,117,32,107,110,111,119,32,110,
          111,119,32,116,104,97,116,32,121,111,117,32,119,105,115,104,32,121,
          111,117,32,99,111,117,108,100,32,116,101,108,108,32,121,111,117,114,
          32,121,111,117,110,103,101,114,32,115,101,108,102,63>>
       >>)
    \* FEELINGS
    @@ (<<70,69,69,76,73,78,71,83>> :> <<
        \* How do you want to be remembered by the people you love most?
        <<72,111,119,32,100,111,32,121,111,117,32,119,97,110,116,32,116,111,
          32,98,101,32,114,101,109,101,109,98,101,114,101,100,32,98,121,32,
          116,104,101,32,112,101,111,112,108,101,32,121,111,117,32,108,111,
          118,101,32,109,111,115,116,63>>,
        \* What do you hope people will say about the kind of person you were?
        <<87,104,97,116,32,100,111,32,121,111,117,32,104,111,112,101,32,112,
          101,111,112,108,101,32,119,105,108,108,32,115,97,121,32,97,98,111,
          117,116,32,116,104,101,32,107,105,110,100,32,111,102,32,112,101,114,
          115,111,110,32,121,111,117,32,119,101,114,101,63>>,
        \* What's something you've always wanted to tell someone but never found the right moment?
        <<87,104,97,116,39,115,32,115,111,109,101,116,104,105,110,103,32,121,
          111,117,39,118,101,32,97,108,119,97,121,115,32,119,97,110,116,101,
          100,32,116,111,32,116,101,108,108,32,115,111,109,101,111,110,101,32,
          98,117,116,32,110,101,118,101,114,32,102,111,117,110,100,32,116,104,
          101,32,114,105,103,104,116,32,109,111,109,101,110,116,63>>,
        \* What does it mean to you to live a meaningful life?
        <<87,104,97,116,32,100,111,101,115,32,105,116,32,109,101,97,110,32,
          116,111,32,121,111,117,32,116,111,32,108,105,118,101,32,97,32,109,
          101,97,110,105,110,103,102,117,108,32,108,105,102,101,63>>
       >>)
    \* FUTURE
    @@ (<<70,85,84,85,82,69>> :> <<
        \* What dreams do you have for the people you love?
        <<87,104,97,116,32,100,114,101,97,109,115,32,100,111,32,121,111,117,
          32,104,97,118,101,32,102,111,114,32,116,104,101,32,112,101,111,112,
          108,101,32,121,111,117,32,108,111,118,101,63>>,
        \* What kind of world do you hope future generations will create?
        <<87,104,97,116,32,107,105,110,100,32,111,102,32,119,111,114,108,100,
          32,100,111,32,121,111,117,32,104,111,112,101,32,102,117,116,117,114,
          101,32,103,101,110,101,114,97,116,105,111,110,115,32,119,105,108,
          108,32,99,114,101,97,116,101,63>>,
        \* What values do you most want to pass down?
        <<87,104,97,116,32,118,97,108,117,101,115,32,100,111,32,121,111,117,
          32,109,111,115,116,32,119,97,110,116,32,116,111,32,112,97,115,115,
          32,100,111,119,110,63>>,
        \* What would you want someone to know if they were facing a difficult time?
        <<87,104,97,116,32,119,111,117,108,100,32,121,111,117,32,119,97,110,
          116,32,115,111,109,101,111,110,101,32,116,111,32,107,110,111,119,32,
          105,102,32,116,104,101,121,32,119,101,114,101,32,102,97,99,105,110,
          103,32,97,32,100,105,102,102,105,99,117,108,116,32,116,105,109,101,
          63>>
       >>)

\* EMOTIONAL_RESPONSES: the followUp text of each emotion that has an entry
EMOTIONAL_RESPONSES ==
    \* joyful: What other moments have filled you with this same kind of joy?
    (<<106,111,121,102,117,108>> :>
        <<87,104,97,116,32,111,116,104,101,114,32,109,111,109,101,110,116,115,
          32,104,97,118,101,32,102,105,108,108,101,100,32,121,111,117,32,119,
          105,116,104,32,116,104,105,115,32,115,97,109,101,32,107,105,110,100,
          32,111,102,32,106,111,121,63>>)
    \* nostalgic: What made this memory so special that it stayed with you all this time?
    @@ (<<110,111,115,116,97,108,103,105,99>> :>
        <<87,104,97,116,32,109,97,100,101,32,116,104,105,115,32,109,101,109,
          111,114,121,32,115,111,32,115,112,101,99,105,97,108,32,116,104,97,
          116,32,105,116,32,115,116,97,121,101,100,32,119,105,116,104,32,121,
          111,117,32,97,108,108,32,116,104,105,115,32,116,105,109,101,63>>)
    \* melancholic: Sometimes our most meaningful memories carry both joy and
    \* sadness. What would you want someone to understand about this?
    @@ (<<109,101,108,97,110,99,104,111,108,105,99>> :>
        <<83,111,109,101,116,105,109,101,115,32,111,117,114,32,109,111,115,
          116,32,109,101,97,110,105,110,103,102,117,108,32,109,101,109,111,
          114,105,101,115,32,99,97,114,114,121,32,98,111,116,104,32,106,111,
          121,32,97,110,100,32,115,97,100,110,101,115,115,46,32,87,104,97,116,
          32,119,111,117,108,100,32,121,111,117,32,119,97,110,116,32,115,111,
          109,101,111,110,101,32,116,111,32,117,110,100,101,114,115,116,97,
          110,100,32,97,98,111,117,116,32,116,104,105,115,63>>)
    \* grateful: How has this gratitude shaped the way you see the world?
    @@ (<<103,114,97,116,101,102,117,108>> :>
        <<72,111,119,32,104,97,115,32,116,104,105,115,32,103,114,97,116,105,
          116,117,100,101,32,115,104,97,112,101,100,32,116,104,101,32,119,97,
          121,32,121,111,117,32,115,101,101,32,116,104,101,32,119,111,114,108,
          100,63>>)
    \* vulnerable: What would you want someone to know if they were going through something similar?
    @@ (<<118,117,108,110,101,114,97,98,108,101>> :>
        <<87,104,97,116,32,119,111,117,108,100,32,121,111,117,32,119,97,110,
          116,32,115,111,109,101,111,110,101,32,116,111,32,107,110,111,119,32,
          105,102,32,116,104,101,121,32,119,101,114,101,32,103,111,105,110,
          103,32,116,104,114,111,117,103,104,32,115,111,109,101,116,104,105,
          110,103,32,115,105,109,105,108,97,114,63>>)
    \* hopeful: What keeps this hope alive in your heart?
    @@ (<<104,111,112,101,102,117,108>> :>
        <<87,104,97,116,32,107,101,101,112,115,32,116,104,105,115,32,104,111,
          112,101,32,97,108,105,118,101,32,105,110,32,121,111,117,114,32,104,
          101,97,114,116,63>>)

\* getFallbackQuestion without `|| QUESTION_TEMPLATES.OPENING`: indexing the
\* undefined pool of an unknown category throws
getFallbackQuestion_noDefault(category) ==
    LET key == toUpperCase(category) IN
    IF key \in DOMAIN QUESTION_TEMPLATES
    THEN {Ok(QUESTION_TEMPLATES[key][i]) : i \in 1..Len(QUESTION_TEMPLATES[key])}
    ELSE {Throws("TypeError")}

\* getFallbackQuestion: the outcomes of the random pick from the pool of the
\* category, the OPENING pool for a category without one
getFallbackQuestion(category) ==
    LET key == toUpperCase(category)
        templates == IF key \in DOMAIN QUESTION_TEMPLATES
                     THEN QUESTION_TEMPLATES[key]
                     ELSE QUESTION_TEMPLATES[<<79,80,69,78,73,78,71>>]
    IN {Ok(templates[i]) : i \in 1..Len(templates)}

MinQuestionLength == 10
MaxQuestionLength == 300
TruncatedLength == 297

\* confidence: 0.8 and 0.3, in tenths
ModelConfidence == 8
FallbackConfidence == 3

\* generateInterviewQuestion from the answer of the completion call to the
\* content it returns: the quotes /^["']|["']$/g are removed, "?" (63) is
\* appended if missing, "..." ends a content cut at TruncatedLength
cleanQuestion(rawContent) ==
    IF rawContent = NoContent \/ trim(rawContent) = <<>>
    THEN Throws("AI returned empty response")
    ELSE LET isQuote(u) == u \in {34, 39}
             a == IF rawContent # <<>> /\ isQuote(Head(rawContent))
                  THEN Tail(rawContent) ELSE rawContent
             b == IF a # <<>> /\ isQuote(a[Len(a)])
                  THEN SubSeq(a, 1, Len(a) - 1) ELSE a
             stripped == trim(b)
             content == IF stripped # <<>> /\ stripped[Len(stripped)] = 63
                        THEN stripped ELSE Append(stripped, 63)
         IN IF Len(content) < MinQuestionLength
            THEN Throws("Generated question is too short")
            ELSE IF Len(content) > MaxQuestionLength
            THEN Ok(substring(content, 0, TruncatedLength) \o <<46, 46, 46>>)
            ELSE Ok(content)

\* generateInterviewQuestion up to `await this.initialize()`
generateInterviewQuestion(emotionalState, questionCategory) ==
    /\ gen.pc \in {"idle", "returned", "rejected"}
    /\ initialize(GenCaller)
    /\ gen' = [NoGen EXCEPT !.op = "question", !.pc = "initializing",
                            !.emotionalState = emotionalState,
                            !.questionCategory = questionCategory]
    /\ UNCHANGED <<cryptoVars, dbVars, voiceVars, validation, rec, subs, cfg, cleanup, settings>>

\* questionCatch returning the template with the confidence of a model answer
questionCatch_modelConfidence(error, picked) ==
    IF picked.ok
    THEN [gen EXCEPT !.pc = "returned", !.caught = error,
                     !.res = [NoResult EXCEPT !.kind = "question",
                                              !.content = picked.val,
                                              !.confidence = ModelConfidence,
                                              !.emotionalTone = gen.emotionalState]]
    ELSE [gen EXCEPT !.pc = "rejected", !.caught = error]

\* the catch block of generateInterviewQuestion: it returns the picked
\* template, or the call rejects if picking throws
questionCatch(error, picked) ==
    IF picked.ok
    THEN [gen EXCEPT !.pc = "returned", !.caught = error,
                     !.res = [NoResult EXCEPT !.kind = "question",
                                              !.content = picked.val,
                                              !.confidence = FallbackConfidence,
                                              !.emotionalTone = gen.emotionalState]]
    ELSE [gen EXCEPT !.pc = "rejected", !.caught = error]

\* initialize() has settled: the engine check, the input validation and the
\* completion call
QuestionAfterInitialize ==
    /\ gen.op = "question" /\ gen.pc = "initializing"
    /\ pc[GenCaller] \in {"resolved", "rejected"}
    /\ LET error ==
             IF afterInitialize # "" THEN afterInitialize
             ELSE IF gen.emotionalState = <<>> \/ gen.questionCategory = <<>>
             THEN "Missing required parameters for question generation"
             ELSE ""
       IN IF error = ""
          THEN gen' = [gen EXCEPT !.pc = "completing"]
          ELSE \E picked \in getFallbackQuestion(gen.questionCategory) :
                   gen' = questionCatch(error, picked)
    /\ UNCHANGED <<mgrVars, cryptoVars, dbVars, voiceVars, validation, rec, subs, cfg, cleanup, settings>>

\* the completion call settles: answer is Ok(content) or Throws(..); the
\* suggestions are those of generateFollowUpSuggestions
QuestionCompletionSettles(answer) ==
    /\ gen.op = "question" /\ gen.pc = "completing"
    /\ LET cleaned == IF answer.ok THEN cleanQuestion(answer.val) ELSE answer
           suggestions == IF gen.emotionalState \in DOMAIN EMOTIONAL_RESPONSES
                          THEN <<EMOTIONAL_RESPONSES[gen.emotionalState]>>
                          ELSE <<>>
       IN IF cleaned.ok
          THEN gen' = [gen EXCEPT
                 !.pc = "returned",
                 !.res = [NoResult EXCEPT !.kind = "question",
                                          !.content = cleaned.val,
                                          !.confidence = ModelConfidence,
                                          !.emotionalTone = gen.emotionalState,
                                          !.suggestions = suggestions]]
          ELSE \E picked \in getFallbackQuestion(gen.questionCategory) :
                   gen' = questionCatch(cleaned.err, picked)
    /\ UNCHANGED <<mgrVars, cryptoVars, dbVars, voiceVars, validation, rec, subs, cfg, cleanup, settings>>

\* the texts of getFallbackContent and the default title of
\* parseGeneratedContent
FallbackText ==
    \* the message for an empty response set
    [empty |->
        <<68,101,97,114,32,70,117,116,117,114,101,32,82,101,97,100,101,114,44,
          10,10,73,32,119,97,110,116,101,100,32,116,111,32,99,114,101,97,116,
          101,32,116,104,105,115,32,108,105,118,105,110,103,32,104,101,105,
          114,108,111,111,109,32,116,111,32,115,104,97,114,101,32,115,111,109,
          101,116,104,105,110,103,32,109,101,97,110,105,110,103,102,117,108,
          32,119,105,116,104,32,121,111,117,46,32,84,104,111,117,103,104,32,
          73,32,109,97,121,32,110,111,116,32,104,97,118,101,32,104,97,100,32,
          116,104,101,32,99,104,97,110,99,101,32,116,111,32,115,104,97,114,
          101,32,97,108,108,32,109,121,32,116,104,111,117,103,104,116,115,32,
          105,110,32,100,101,116,97,105,108,44,32,112,108,101,97,115,101,32,
          107,110,111,119,32,116,104,97,116,32,121,111,117,32,97,114,101,32,
          100,101,101,112,108,121,32,108,111,118,101,100,32,97,110,100,32,99,
          104,101,114,105,115,104,101,100,46,10,10,84,104,101,32,109,101,109,
          111,114,105,101,115,32,119,101,32,99,114,101,97,116,101,44,32,116,
          104,101,32,108,111,118,101,32,119,101,32,115,104,97,114,101,44,32,
          97,110,100,32,116,104,101,32,119,105,115,100,111,109,32,119,101,32,
          112,97,115,115,32,100,111,119,110,32,97,114,101,32,116,104,101,32,
          116,114,117,101,32,116,114,101,97,115,117,114,101,115,32,111,102,32,
          108,105,102,101,46,32,77,97,121,32,116,104,105,115,32,109,101,115,
          115,97,103,101,32,115,101,114,118,101,32,97,115,32,97,32,114,101,
          109,105,110,100,101,114,32,111,102,32,116,104,101,32,99,111,110,110,
          101,99,116,105,111,110,32,119,101,32,115,104,97,114,101,32,97,99,
          114,111,115,115,32,116,105,109,101,46,10,10,87,105,116,104,32,97,
          108,108,32,109,121,32,108,111,118,101,32,97,110,100,32,104,111,112,
          101,32,102,111,114,32,121,111,117,114,32,102,117,116,117,114,101,44,
          10,91,89,111,117,114,32,78,97,109,101,93>>,
    \* My Dear One, ...
     opening |->
        <<77,121,32,68,101,97,114,32,79,110,101,44,10,10,73,32,119,97,110,116,
          101,100,32,116,111,32,115,104,97,114,101,32,115,111,109,101,32,116,
          104,111,117,103,104,116,115,32,119,105,116,104,32,121,111,117,32,
          116,104,97,116,32,73,32,104,111,112,101,32,119,105,108,108,32,115,
          116,97,121,32,119,105,116,104,32,121,111,117,32,97,108,119,97,121,
          115,46,10,10>>,
    \* These words come from my heart, ...
     closing |->
        <<84,104,101,115,101,32,119,111,114,100,115,32,99,111,109,101,32,102,
          114,111,109,32,109,121,32,104,101,97,114,116,44,32,99,97,114,114,
          121,105,110,103,32,119,105,116,104,32,116,104,101,109,32,97,108,108,
          32,116,104,101,32,108,111,118,101,32,97,110,100,32,104,111,112,101,
          32,73,32,104,97,118,101,32,102,111,114,32,121,111,117,46,32,77,97,
          121,32,116,104,101,121,32,115,101,114,118,101,32,97,115,32,97,32,
          114,101,109,105,110,100,101,114,32,111,102,32,116,104,101,32,112,
          114,101,99,105,111,117,115,32,99,111,110,110,101,99,116,105,111,110,
          32,119,101,32,115,104,97,114,101,32,97,99,114,111,115,115,32,116,
          105,109,101,32,97,110,100,32,103,101,110,101,114,97,116,105,111,110,
          115,46,10,10,87,105,116,104,32,101,110,100,108,101,115,115,32,108,
          111,118,101,44,10,91,89,111,117,114,32,78,97,109,101,93>>,
    \* When I think about precious moments,
     moment |->
        <<87,104,101,110,32,73,32,116,104,105,110,107,32,97,98,111,117,116,32,
          112,114,101,99,105,111,117,115,32,109,111,109,101,110,116,115,44,
          32>>,
    \* Something I've learned that I want to share with you:
     wisdom |->
        <<83,111,109,101,116,104,105,110,103,32,73,39,118,101,32,108,101,97,
          114,110,101,100,32,116,104,97,116,32,73,32,119,97,110,116,32,116,
          111,32,115,104,97,114,101,32,119,105,116,104,32,121,111,117,58,32>>,
    \* I hope you'll remember this about me:
     remember |->
        <<73,32,104,111,112,101,32,121,111,117,39,108,108,32,114,101,109,101,
          109,98,101,114,32,116,104,105,115,32,97,98,111,117,116,32,109,101,
          58,32>>,
    \* For your future, I hope:
     future |->
        <<70,111,114,32,121,111,117,114,32,102,117,116,117,114,101,44,32,73,
          32,104,111,112,101,58,32>>,
    \* A Message of Love
     loveTitle |->
        <<65,32,77,101,115,115,97,103,101,32,111,102,32,76,111,118,101>>,
    \* A Message from the Heart
     heartTitle |->
        <<65,32,77,101,115,115,97,103,101,32,102,114,111,109,32,116,104,101,
          32,72,101,97,114,116>>,
    \* Wisdom for Tomorrow
     wisdomTitle |->
        <<87,105,115,100,111,109,32,102,111,114,32,84,111,109,111,114,114,111,
          119>>,
    \* A Legacy of Love
     legacyTitle |->
        <<65,32,76,101,103,97,99,121,32,111,102,32,76,111,118,101>>,
    \* Thoughts to Share
     thoughtsTitle |->
        <<84,104,111,117,103,104,116,115,32,116,111,32,83,104,97,114,101>>]

MinContentLength == 50

\* responseText of generateTimeCapsuleContent: the entries [q, a] of
\* responses that pass the filter, as "Q: q\nA: a" joined by blank lines
responseText(responses) ==
    LET RECURSIVE joinEntries(_)
        joinEntries(es) ==
            IF es = <<>> THEN <<>>
            ELSE LET one == <<81, 58, 32>> \o Head(es).q \o <<10, 65, 58, 32>>
                              \o Head(es).a
                 IN IF Len(es) = 1 THEN one
                    ELSE one \o <<10, 10>> \o joinEntries(Tail(es))
    IN joinEntries(SelectSeq(responses,
           LAMBDA e : e.q # <<>> /\ e.a # <<>> /\ trim(e.a) # <<>>))

\* the input validation of generateTimeCapsuleContent
contentInputError(responses) ==
    IF Len(responses) = 0 THEN "No interview responses provided"
    ELSE IF trim(responseText(responses)) = <<>>
    THEN "No valid interview responses found"
    ELSE ""

\* /(?:Title|TITLE):\s*(.+?)(?:\n|$)/i: the leftmost match, \s* greedy
\* (k characters), the group lazy; `.` matches no line terminator
titleMatch(s) ==
    LET tag == <<116, 105, 116, 108, 101, 58>>
        isLineTerminator(u) == u \in {10, 13, 8232, 8233}
        RECURSIVE whitespaceRun(_)
        whitespaceRun(i) ==
            IF i <= Len(s) /\ isJsWhitespace(s[i]) THEN 1 + whitespaceRun(i + 1)
            ELSE 0
        RECURSIVE lineEnd(_)
        lineEnd(i) ==
            IF i > Len(s) \/ isLineTerminator(s[i]) THEN i ELSE lineEnd(i + 1)
        groupAt(b) ==
            /\ b <= Len(s)
            /\ ~isLineTerminator(s[b])
            /\ LET e == lineEnd(b + 1) IN e > Len(s) \/ s[e] = 10
        skips(p) == {k \in 0..whitespaceRun(p + Len(tag)) : groupAt(p + Len(tag) + k)}
        tagAt(p) ==
            /\ p + Len(tag) - 1 <= Len(s)
            /\ toLowerCase(SubSeq(s, p, p + Len(tag) - 1)) = tag
        starts == {p \in 1..Len(s) : tagAt(p) /\ skips(p) # {}}
    IN IF starts = {} THEN [found |-> FALSE, from |-> 0, to |-> 0, group |-> <<>>]
       ELSE LET p == CHOOSE x \in starts : \A y \in starts : x <= y
                k == CHOOSE x \in skips(p) : \A y \in skips(p) : x >= y
                b == p + Len(tag) + k
                e == lineEnd(b + 1)
            IN [found |-> TRUE, from |-> p,
                to |-> IF e > Len(s) THEN Len(s) ELSE e,
                group |-> SubSeq(s, b, e - 1)]

parseGeneratedContent(fullResponse) ==
    LET m == titleMatch(fullResponse) IN
    [title |-> IF m.found THEN trim(m.group) ELSE FallbackText.heartTitle,
     content |-> IF m.found
                 THEN trim(SubSeq(fullResponse, 1, m.from - 1)
                           \o SubSeq(fullResponse, m.to + 1, Len(fullResponse)))
                 ELSE trim(fullResponse)]

\* content.split(' ').length
wordCount(content) == Cardinality({i \in 1..Len(content) : content[i] = 32}) + 1

\* generateTimeCapsuleContent from the answer of the completion call to the
\* object it returns
contentFromAnswer(fullResponse, tone) ==
    IF fullResponse = NoContent \/ trim(fullResponse) = <<>>
    THEN Throws("AI returned empty content")
    ELSE LET parsed == parseGeneratedContent(fullResponse) IN
         IF parsed.content = <<>> \/ Len(trim(parsed.content)) < MinContentLength
         THEN Throws("Generated content is too short")
         ELSE Ok([NoResult EXCEPT !.kind = "content",
                                  !.content = parsed.content,
                                  !.title = parsed.title,
                                  !.emotionalTone = tone,
                                  !.wordCount = wordCount(parsed.content)])

\* getFallbackContent; the words looked for in the lower-cased question are
\* moment, memory, wisdom, advice, remember, legacy, future, hope and the
\* tones wise, thoughtful, poetic, inspiring, conversational
getFallbackContent(responses, tone) ==
    LET paragraph(question, answer) ==
            LET q == toLowerCase(question) IN
            IF answer = <<>> \/ trim(answer) = <<>> THEN <<>>
            ELSE (IF Includes(q, <<109,111,109,101,110,116>>)
                     \/ Includes(q, <<109,101,109,111,114,121>>)
                  THEN FallbackText.moment
                  ELSE IF Includes(q, <<119,105,115,100,111,109>>)
                          \/ Includes(q, <<97,100,118,105,99,101>>)
                  THEN FallbackText.wisdom
                  ELSE IF Includes(q, <<114,101,109,101,109,98,101,114>>)
                          \/ Includes(q, <<108,101,103,97,99,121>>)
                  THEN FallbackText.remember
                  ELSE IF Includes(q, <<102,117,116,117,114,101>>)
                          \/ Includes(q, <<104,111,112,101>>)
                  THEN FallbackText.future
                  ELSE <<>>)
                 \o trim(answer) \o <<10, 10>>
        RECURSIVE paragraphs(_)
        paragraphs(es) ==
            IF es = <<>> THEN <<>>
            ELSE paragraph(Head(es).q, Head(es).a) \o paragraphs(Tail(es))
        title ==
            IF tone \in {<<119,105,115,101>>,
                         <<116,104,111,117,103,104,116,102,117,108>>}
            THEN FallbackText.wisdomTitle
            ELSE IF tone \in {<<112,111,101,116,105,99>>,
                              <<105,110,115,112,105,114,105,110,103>>}
            THEN FallbackText.legacyTitle
            ELSE IF tone = <<99,111,110,118,101,114,115,97,116,105,111,110,97,108>>
            THEN FallbackText.thoughtsTitle
            ELSE FallbackText.heartTitle
        content == IF Len(responses) = 0 THEN FallbackText.empty
                   ELSE FallbackText.opening \o paragraphs(responses)
                        \o FallbackText.closing
    IN [NoResult EXCEPT !.kind = "content",
                        !.content = content,
                        !.title = IF Len(responses) = 0 THEN FallbackText.loveTitle
                                  ELSE title,
                        !.emotionalTone = tone,
                        !.wordCount = wordCount(content)]

\* generateTimeCapsuleContent up to `await this.initialize()`
generateTimeCapsuleContent(responses, tone) ==
    /\ gen.pc \in {"idle", "returned", "rejected"}
    /\ initialize(GenCaller)
    /\ gen' = [NoGen EXCEPT !.op = "content", !.pc = "initializing",
                            !.responses = responses, !.tone = tone]
    /\ UNCHANGED <<cryptoVars, dbVars, voiceVars, validation, rec, subs, cfg, cleanup, settings>>

\* the catch block of generateTimeCapsuleContent
contentCatch(error) ==
    [gen EXCEPT !.pc = "returned", !.caught = error,
                !.res = getFallbackContent(gen.responses, gen.tone)]

ContentAfterInitialize ==
    /\ gen.op = "content" /\ gen.pc = "initializing"
    /\ pc[GenCaller] \in {"resolved", "rejected"}
    /\ LET error == IF afterInitialize # "" THEN afterInitialize
                    ELSE contentInputError(gen.responses)
       IN gen' = IF error = "" THEN [gen EXCEPT !.pc = "completing"]
                 ELSE contentCatch(error)
    /\ UNCHANGED <<mgrVars, cryptoVars, dbVars, voiceVars, validation, rec, subs, cfg, cleanup, settings>>

ContentCompletionSettles(answer) ==
    /\ gen.op = "content" /\ gen.pc = "completing"
    /\ LET parsed == IF answer.ok THEN contentFromAnswer(answer.val, gen.tone)
                     ELSE answer
       IN gen' = IF parsed.ok
                 THEN [gen EXCEPT !.pc = "returned", !.res = parsed.val]
                 ELSE contentCatch(parsed.err)
    /\ UNCHANGED <<mgrVars, cryptoVars, dbVars, voiceVars, validation, rec, subs, cfg, cleanup, settings>>

Reflective == <<114,101,102,108,101,99,116,105,118,101>>

\* validateEmotion: the allowed labels
validEmotions == {
    <<106,111,121,102,117,108>>,  \* joyful
    <<110,111,115,116,97,108,103,105,99>>,  \* nostalgic
    <<109,101,108,97,110,99,104,111,108,105,99>>,  \* melancholic
    <<104,111,112,101,102,117,108>>,  \* hopeful
    <<103,114,97,116,101,102,117,108>>,  \* grateful
    <<114,101,102,108,101,99,116,105,118,101>>,  \* reflective
    <<108,111,118,105,110,103>>,  \* loving
    <<112,101,97,99,101,102,117,108>>,  \* peaceful
    <<101,120,99,105,116,101,100>>,  \* excited
    <<99,111,110,116,101,109,112,108,97,116,105,118,101>>,  \* contemplative
    <<118,117,108,110,101,114,97,98,108,101>>,  \* vulnerable
    <<112,114,111,117,100>>,  \* proud
    <<119,105,115,116,102,117,108>>,  \* wistful
    <<115,101,114,101,110,101>>,  \* serene
    <<112,97,115,115,105,111,110,97,116,101>>  \* passionate
}

\* validateEmotion without the membership test
validateEmotion_noCheck(emotion) == emotion

validateEmotion(emotion) ==
    IF emotion \in validEmotions THEN emotion ELSE Reflective

\* analyzeEmotionFallback: the first emotion, in the order of the object
\* literal, one of whose keywords occurs in the lower-cased text
analyzeEmotionFallback(text) ==
    LET emotionKeywords == <<
            \* joyful: happy, joy, excited, wonderful, amazing, love
            [emotion |-> <<106,111,121,102,117,108>>,
             keywords |-> {
                 <<104,97,112,112,121>>,
                 <<106,111,121>>,
                 <<101,120,99,105,116,101,100>>,
                 <<119,111,110,100,101,114,102,117,108>>,
                 <<97,109,97,122,105,110,103>>,
                 <<108,111,118,101>>}],
            \* nostalgic: remember, used to, back then, childhood, past
            [emotion |-> <<110,111,115,116,97,108,103,105,99>>,
             keywords |-> {
                 <<114,101,109,101,109,98,101,114>>,
                 <<117,115,101,100,32,116,111>>,
                 <<98,97,99,107,32,116,104,101,110>>,
                 <<99,104,105,108,100,104,111,111,100>>,
                 <<112,97,115,116>>}],
            \* grateful: thankful, blessed, appreciate, grateful, lucky
            [emotion |-> <<103,114,97,116,101,102,117,108>>,
             keywords |-> {
                 <<116,104,97,110,107,102,117,108>>,
                 <<98,108,101,115,115,101,100>>,
                 <<97,112,112,114,101,99,105,97,116,101>>,
                 <<103,114,97,116,101,102,117,108>>,
                 <<108,117,99,107,121>>}],
            \* melancholic: sad, miss, lost, gone, difficult, hard
            [emotion |-> <<109,101,108,97,110,99,104,111,108,105,99>>,
             keywords |-> {
                 <<115,97,100>>,
                 <<109,105,115,115>>,
                 <<108,111,115,116>>,
                 <<103,111,110,101>>,
                 <<100,105,102,102,105,99,117,108,116>>,
                 <<104,97,114,100>>}],
            \* hopeful: hope, future, dream, wish, believe, will
            [emotion |-> <<104,111,112,101,102,117,108>>,
             keywords |-> {
                 <<104,111,112,101>>,
                 <<102,117,116,117,114,101>>,
                 <<100,114,101,97,109>>,
                 <<119,105,115,104>>,
                 <<98,101,108,105,101,118,101>>,
                 <<119,105,108,108>>}]
          >>
        lowerText == toLowerCase(text)
        hits == {i \in 1..Len(emotionKeywords) :
                    \E keyword \in emotionKeywords[i].keywords :
                        Includes(lowerText, keyword)}
    IN IF hits = {} THEN Reflective
       ELSE emotionKeywords[CHOOSE i \in hits : \A j \in hits : i <= j].emotion

emotionResult(label) == [NoResult EXCEPT !.kind = "emotion", !.content = label]

\* analyzeEmotionalState up to `await this.initialize()`
analyzeEmotionalState(text) ==
    /\ gen.pc \in {"idle", "returned", "rejected"}
    /\ initialize(GenCaller)
    /\ gen' = [NoGen EXCEPT !.op = "emotion", !.pc = "initializing", !.text = text]
    /\ UNCHANGED <<cryptoVars, dbVars, voiceVars, validation, rec, subs, cfg, cleanup, settings>>

\* the catch block of analyzeEmotionalState
emotionCatch(error) ==
    [gen EXCEPT !.pc = "returned", !.caught = error,
                !.res = emotionResult(analyzeEmotionFallback(gen.text))]

EmotionAfterInitialize ==
    /\ gen.op = "emotion" /\ gen.pc = "initializing"
    /\ pc[GenCaller] \in {"resolved", "rejected"}
    /\ gen' = IF afterInitialize = "" THEN [gen EXCEPT !.pc = "completing"]
              ELSE emotionCatch(afterInitialize)
    /\ UNCHANGED <<mgrVars, cryptoVars, dbVars, voiceVars, validation, rec, subs, cfg, cleanup, settings>>

\* the completion call settles:
\* content?.trim().toLowerCase() || "reflective", then validateEmotion
EmotionCompletionSettles(answer) ==
    /\ gen.op = "emotion" /\ gen.pc = "completing"
    /\ LET emotion == IF answer.val = NoContent THEN <<>>
                      ELSE toLowerCase(trim(answer.val))
       IN gen' = IF answer.ok
                 THEN [gen EXCEPT
                         !.pc = "returned",
                         !.res = emotionResult(validateEmotion(
                                     IF emotion = <<>> THEN Reflective ELSE emotion))]
                 ELSE emotionCatch(answer.err)
    /\ UNCHANGED <<mgrVars, cryptoVars, dbVars, voiceVars, validation, rec, subs, cfg, cleanup, settings>>

\* analyzeEmotionFallback of useAI: the first emotion, in the order of the
\* object literal, with the highest number of keywords that occur in the
\* lower-cased text; reflective when no keyword occurs
useAI_analyzeEmotionFallback(text) ==
    LET emotionKeywords == <<
            \* joyful: happy, joy, excited, wonderful, amazing, love, great
            [emotion |-> <<106,111,121,102,117,108>>,
             keywords |-> {
                 <<104,97,112,112,121>>,
                 <<106,111,121>>,
                 <<101,120,99,105,116,101,100>>,
                 <<119,111,110,100,101,114,102,117,108>>,
                 <<97,109,97,122,105,110,103>>,
                 <<108,111,118,101>>,
                 <<103,114,101,97,116>>}],
            \* nostalgic: remember, used to, back then, childhood, past, when I was
            [emotion |-> <<110,111,115,116,97,108,103,105,99>>,
             keywords |-> {
                 <<114,101,109,101,109,98,101,114>>,
                 <<117,115,101,100,32,116,111>>,
                 <<98,97,99,107,32,116,104,101,110>>,
                 <<99,104,105,108,100,104,111,111,100>>,
                 <<112,97,115,116>>,
                 <<119,104,101,110,32,73,32,119,97,115>>}],
            \* grateful: thankful, blessed, appreciate, grateful, lucky, fortunate
            [emotion |-> <<103,114,97,116,101,102,117,108>>,
             keywords |-> {
                 <<116,104,97,110,107,102,117,108>>,
                 <<98,108,101,115,115,101,100>>,
                 <<97,112,112,114,101,99,105,97,116,101>>,
                 <<103,114,97,116,101,102,117,108>>,
                 <<108,117,99,107,121>>,
                 <<102,111,114,116,117,110,97,116,101>>}],
            \* melancholic: sad, miss, lost, gone, difficult, hard, wish
            [emotion |-> <<109,101,108,97,110,99,104,111,108,105,99>>,
             keywords |-> {
                 <<115,97,100>>,
                 <<109,105,115,115>>,
                 <<108,111,115,116>>,
                 <<103,111,110,101>>,
                 <<100,105,102,102,105,99,117,108,116>>,
                 <<104,97,114,100>>,
                 <<119,105,115,104>>}],
            \* hopeful: hope, future, dream, wish, believe, will, someday
            [emotion |-> <<104,111,112,101,102,117,108>>,
             keywords |-> {
                 <<104,111,112,101>>,
                 <<102,117,116,117,114,101>>,
                 <<100,114,101,97,109>>,
                 <<119,105,115,104>>,
                 <<98,101,108,105,101,118,101>>,
                 <<119,105,108,108>>,
                 <<115,111,109,101,100,97,121>>}],
            \* loving: love, care, dear, precious, cherish, adore
            [emotion |-> <<108,111,118,105,110,103>>,
             keywords |-> {
                 <<108,111,118,101>>,
                 <<99,97,114,101>>,
                 <<100,101,97,114>>,
                 <<112,114,101,99,105,111,117,115>>,
                 <<99,104,101,114,105,115,104>>,
                 <<97,100,111,114,101>>}],
            \* proud: proud, accomplished, achieved, success, overcome
            [emotion |-> <<112,114,111,117,100>>,
             keywords |-> {
                 <<112,114,111,117,100>>,
                 <<97,99,99,111,109,112,108,105,115,104,101,100>>,
                 <<97,99,104,105,101,118,101,100>>,
                 <<115,117,99,99,101,115,115>>,
                 <<111,118,101,114,99,111,109,101>>}]
          >>
        lowerText == toLowerCase(text)
        score(i) == Cardinality({keyword \in emotionKeywords[i].keywords :
                                    Includes(lowerText, keyword)})
        dominant == {i \in 1..Len(emotionKeywords) :
                        /\ score(i) > 0
                        /\ \A j \in 1..Len(emotionKeywords) :
                              score(j) < score(i) \/ (score(j) = score(i) /\ i <= j)}
    IN IF dominant = {} THEN Reflective
       ELSE emotionKeywords[CHOOSE i \in dominant : TRUE].emotion

\* useAI.analyzeEmotion.  ready is `isReady && isAIEnabled` of the hook, set
\* by earlier ai-progress events and the store: when it is false the hook's
\* own heuristic answers, otherwise the hook returns what the manager's
\* analyzeEmotionalState returns
analyzeEmotion(text, ready) ==
    IF ready THEN analyzeEmotionalState(text)
    ELSE /\ gen.pc \in {"idle", "returned", "rejected"}
         /\ gen' = [NoGen EXCEPT
                      !.op = "hookEmotion", !.pc = "returned", !.text = text,
                      !.res = emotionResult(useAI_analyzeEmotionFallback(text))]
         /\ UNCHANGED <<mgrVars, cryptoVars, dbVars, voiceVars, validation, rec, subs, cfg, cleanup, settings>>

\* useAI.generateQuestion: `throw new Error('AI not ready')` when the hook
\* is not ready or the AI is disabled, otherwise the manager's
\* generateInterviewQuestion, whose result the hook returns and whose
\* rejection it rethrows.  The performance tracking is left out.
generateQuestion(emotion, category, ready) ==
    IF ready THEN generateInterviewQuestion(emotion, category)
    ELSE /\ gen.pc \in {"idle", "returned", "rejected"}
         /\ gen' = [NoGen EXCEPT
                      !.op = "hookQuestion", !.pc = "rejected",
                      !.emotionalState = emotion, !.questionCategory = category,
                      !.caught = "AI not ready"]
         /\ UNCHANGED <<mgrVars, cryptoVars, dbVars, voiceVars, validation, rec, subs, cfg, cleanup, settings>>

\* useAI.generateContent, which begins like generateQuestion
generateContent(responses, tone, ready) ==
    IF ready THEN generateTimeCapsuleContent(responses, tone)
    ELSE /\ gen.pc \in {"idle", "returned", "rejected"}
         /\ gen' = [NoGen EXCEPT
                      !.op = "hookContent", !.pc = "rejected",
                      !.responses = responses, !.tone = tone,
                      !.caught = "AI not ready"]
         /\ UNCHANGED <<mgrVars, cryptoVars, dbVars, voiceVars, validation, rec, subs, cfg, cleanup, settings>>

\* the arguments the callers pass and the answers the completion call
\* gives: content (NoContent for none), or a failure of the call
GenInputs ==
    [emotionalStates |-> {<<106,111,121,102,117,108>>, <<>>},  \* joyful, empty
     categories |-> {<<109,101,109,111,114,105,101,115>>,  \* memories
                     <<109,105,115,99>>},  \* misc: no pool
     questionAnswers |->
        {Ok(NoContent), Throws("completion failed"),
         \* two spaces
         Ok(<<32,32>>),
         \* Why
         Ok(<<87,104,121>>),
         \* "What made you smile?", in quotes
         Ok(<<34,87,104,97,116,32,109,97,100,101,32,121,111,117,32,115,109,
              105,108,101,63,34>>),
         \* Tell me more about home
         Ok(<<84,101,108,108,32,109,101,32,109,111,114,101,32,97,98,111,
              117,116,32,104,111,109,101>>),
         \* 299 and 300 letters a
         Ok(Rep(97, MaxQuestionLength - 1)), Ok(Rep(97, MaxQuestionLength))},
     responseSets |->
        {<<>>,
         \* "A moment?" answered by two spaces, and by "We danced"
         <<[q |-> <<65,32,109,111,109,101,110,116,63>>, a |-> <<32,32>>]>>,
         <<[q |-> <<65,32,109,111,109,101,110,116,63>>,
            a |-> <<87,101,32,100,97,110,99,101,100>>]>>},
     tones |-> {<<104,101,97,114,116,102,101,108,116>>,  \* heartfelt
                <<119,105,115,101>>},  \* wise
     contentAnswers |->
        {Ok(NoContent), Throws("completion failed"),
         \* Title: Us, a blank line, 65 characters of text
         Ok(<<84,105,116,108,101,58,32,85,115,10,10,87,101,32,100,97,110,
              99,101,100,32,105,110,32,116,104,101,32,107,105,116,99,104,101,
              110,32,119,104,105,108,101,32,116,104,101,32,114,97,105,110,32,
              102,101,108,108,32,111,110,32,116,104,101,32,111,108,100,32,116,
              105,110,32,114,111,111,102,46>>),
         \* Title: Us, a blank line, short
         Ok(<<84,105,116,108,101,58,32,85,115,10,10,115,104,111,114,116>>),
         \* the 65 characters of text alone
         Ok(<<87,101,32,100,97,110,99,101,100,32,105,110,32,116,104,101,32,
              107,105,116,99,104,101,110,32,119,104,105,108,101,32,116,104,
              101,32,114,97,105,110,32,102,101,108,108,32,111,110,32,116,104,
              101,32,111,108,100,32,116,105,110,32,114,111,111,102,46>>),
         \* the text, then a line that is "Title: "
         Ok(<<87,101,32,100,97,110,99,101,100,32,105,110,32,116,104,101,32,
              107,105,116,99,104,101,110,32,119,104,105,108,101,32,116,104,
              101,32,114,97,105,110,32,102,101,108,108,32,111,110,32,116,104,
              101,32,111,108,100,32,116,105,110,32,114,111,111,102,46,10,84,
              105,116,108,101,58,32>>)
        },
     emotionTexts |->
        {<<>>,
         \* I miss the past
         <<73,32,109,105,115,115,32,116,104,101,32,112,97,115,116>>,
         \* It rained
         <<73,116,32,114,97,105,110,101,100>>},
     emotionAnswers |->
        {Ok(NoContent), Throws("completion failed"),
         \* " Joyful\n", tender
         Ok(<<32,74,111,121,102,117,108,10>>), Ok(<<116,101,110,100,101,114>>)}]

GenNext ==
    \/ \E e \in GenInputs.emotionalStates, c \in GenInputs.categories,
          ready \in BOOLEAN :
           generateQuestion(e, c, ready)
    \/ QuestionAfterInitialize
    \/ \E answer \in GenInputs.questionAnswers : QuestionCompletionSettles(answer)
    \/ \E r \in GenInputs.responseSets, tone \in GenInputs.tones,
          ready \in BOOLEAN :
           generateContent(r, tone, ready)
    \/ ContentAfterInitialize
    \/ \E answer \in GenInputs.contentAnswers : ContentCompletionSettles(answer)
    \/ \E text \in GenInputs.emotionTexts, ready \in BOOLEAN :
           analyzeEmotion(text, ready)
    \/ EmotionAfterInitialize
    \/ \E answer \in GenInputs.emotionAnswers : EmotionCompletionSettles(answer)
    \/ \E a \in 1..MaxAttempts : LoadResolves(a)
    \/ \E a \in 1..MaxAttempts : LoadRejects(a, MsgLoadFailed)
    \/ \E a \in 1..MaxAttempts : TimerFires(a)
    \/ \E a \in 1..MaxAttempts, ok \in BOOLEAN : WarmupSettles(a, ok)
    \/ unload
    \/ \E ok \in BOOLEAN : UnloadSettles(ok)

----------------------------------------------------------------------------
(* Specifications *)

Init ==
    \* WebLLMManager: the fields of a new manager, no call made
    /\ engine = 0
    /\ isInitialized = FALSE
    /\ initPromise = 0
    /\ attempts = 0
    /\ promState = [a \in 1..MaxAttempts |-> "none"]
    /\ loadState = [a \in 1..MaxAttempts |-> "none"]
    /\ raceState = [a \in 1..MaxAttempts |-> "none"]
    /\ timer = [a \in 1..MaxAttempts |-> "none"]
    /\ warm = [a \in 1..MaxAttempts |-> "none"]
    /\ reports = 0
    /\ lastEvent = [stage |-> "none", progress |-> 0, text |-> "", att |-> 0]
    /\ readyCnt = [a \in 1..MaxAttempts |-> 0]
    /\ errorCnt = [a \in 1..MaxAttempts |-> 0]
    /\ pc = [c \in 1..NCallers |-> "idle"]
    /\ target = [c \in 1..NCallers |-> 0]
    /\ unloadPc = "idle"
    \* CapsuleEncryption: no key stored, no call made
    /\ capsule_key = NoItem
    /\ keysMade = 0
    /\ gcm = {}
    /\ jobs = [j \in 1..MaxJobs |->
                  [pc |-> "none", owner |-> "none", content |-> <<>>,
                   pw |-> <<>>, salt |-> <<>>, iv |-> <<>>,
                   key |-> generateKey(0), encryptedData |-> <<>>]]
    /\ trip = [done |-> FALSE, j |-> 0, res |-> Ok(<<>>)]
    /\ alt = [done |-> FALSE, j |-> 0, field |-> "none", how |-> "none",
               res |-> Ok(<<>>)]
    \* the database: an empty table
    /\ timeCapsules = [id \in 1..MaxCapsules |->
                          [present |-> FALSE, content |-> <<>>,
                           encryptedContent |-> NoEncryptedContent,
                           isEncrypted |-> FALSE, created |-> <<>>]]
    /\ nextId = 1
    /\ pending = [j \in 1..MaxJobs |->
                     [kind |-> "none", id |-> 0, content |-> <<>>]]
    /\ lastRead = [done |-> FALSE, id |-> 0, field |-> "none", how |-> "none",
                    res |-> Ok(<<>>)]
    /\ lastSave = "none"
    \* the voice service: no model stored, no call made
    /\ voiceModels = <<>>
    /\ idsMade = 0
    /\ clones = [c \in 1..MaxClones |->
                    [pc |-> "idle", name |-> <<>>, samples |-> <<>>,
                     modelId |-> NoId, isElevenLabsModel |-> FALSE,
                     err |-> <<>>, fallback |-> "none"]]
    /\ synth = NoSynth
    /\ isProcessing = FALSE
    \* no generation call made
    /\ gen = NoGen
    \* Validators.voiceSamples has not been called
    /\ validation = [done |-> FALSE, samples |-> <<>>,
                     res |-> [isValid |-> TRUE, errors |-> <<>>]]
    \* no component is mounted and no stream was acquired
    /\ rec = [comp |-> "none", mounted |-> FALSE, pc |-> "idle", streams |-> <<>>,
              streamRef |-> 0, mediaRecorderRef |-> 0, recorders |-> <<>>,
              isRecording |-> FALSE, error |-> FALSE]
    \* progressCallbacks = [], nothing broadcast
    /\ subs = [progressCallbacks |-> <<>>, sent |-> 0, channel |-> <<>>,
               status |-> [cb \in 1..NSubscribers |-> "never"],
               got |-> [cb \in 1..NSubscribers |-> <<>>]]
    \* cleanupModels has not been called
    /\ cleanup = [pc |-> "idle", allModels |-> <<>>, i |-> 1, cleaned |-> 0,
                  errors |-> 0, log |-> <<>>]
    \* the table settings is empty and no call was made
    /\ settings = [table |-> <<>>,
                   calls |-> [k \in 1..NSettingsCallers |->
                                [op |-> "none", pc |-> "idle", userId |-> "",
                                 updates |-> FALSE, existing |-> 0]]]
    \* createConfig has not been called
    /\ cfg = [done |-> FALSE,
              env |-> [VITE_ENABLE_AI |-> <<>>, VITE_ENABLE_ANALYTICS |-> <<>>,
                       VITE_AI_TIMEOUT_MS |-> <<>>],
              stored |-> [kind |-> "absent", val |-> [kind |-> "val", v |-> 0]],
              config |-> [kind |-> "obj", f |-> [k \in {} |-> 0]]]

Next ==
    \/ \E c \in 1..NCallers : InitializeCall(c)
    \* f: the fractions reported by the runtime, in percent
    \/ \E a \in 1..MaxAttempts, f \in {0, 20, 50, 80} : ProgressReport(a, f)
    \/ \E a \in 1..MaxAttempts : LoadResolves(a)
    \* the messages of the errors the load rejects with; NotAnError is a
    \* rejection with a value that is not an Error
    \/ \E a \in 1..MaxAttempts,
          msg \in {<<"n","e","t","w","o","r","k"," ","e","r","r","o","r">>,
                   <<"o","u","t"," ","o","f"," ","m","e","m","o","r","y">>,
                   <<"r","e","q","u","e","s","t"," ","t","i","m","e","o","u","t">>,
                   MsgLoadFailed, NotAnError} :
          LoadRejects(a, msg)
    \/ \E a \in 1..MaxAttempts : TimerFires(a)
    \/ \E a \in 1..MaxAttempts, ok \in BOOLEAN : WarmupSettles(a, ok)
    \/ unload
    \/ \E ok \in BOOLEAN : UnloadSettles(ok)

Spec == Init /\ [][Next]_vars

\* the manager with the one step the code itself schedules: the callback of
\* setTimeout runs once the timer is armed.  Whether the runtime answers a
\* load, a warm-up call or an unload, and whether a component calls, is left
\* open
SpecTimed ==
    Init /\ [][Next]_vars /\ \A a \in 1..MaxAttempts : WF_vars(TimerFires(a))

SpecCrypto == Init /\ [][CryptoNext]_vars

SpecAltered == Init /\ [][AlteredNext]_vars

SpecStore == Init /\ [][StoreNext]_vars

SpecRead == Init /\ [][ReadNext]_vars

SpecVoice == Init /\ [][VoiceNext]_vars
SpecSamples == Init /\ [][SamplesNext]_vars
SpecRecord == Init /\ [][RecordNext]_vars
SpecProgress == Init /\ [][ProgressNext]_vars
SpecConfig == Init /\ [][ConfigNext]_vars
SpecCleanup == Init /\ [][CleanupNext]_vars
SpecSettings == Init /\ [][SettingsNext]_vars

SpecGen == Init /\ [][GenNext]_vars

----------------------------------------------------------------------------
(* C1: concurrent initialize() calls share one load.  At most one runtime  *)
(* load is in progress; a caller handed the promise of a doInitialize call *)
(* is in the state of that promise (waiting while it is pending, resolved  *)
(* or rejected with it); and each load that won its race broadcast exactly *)
(* one ready event, no other load broadcast any.                           *)
C1_SingleLoad ==
    /\ Cardinality({a \in 1..MaxAttempts : loadState[a] = "running"}) <= 1
    /\ \A c \in 1..NCallers : target[c] # 0 =>
          pc[c] = (IF promState[target[c]] = "pending" THEN "waiting"
                   ELSE promState[target[c]])
    /\ \A a \in 1..MaxAttempts : readyCnt[a] = (IF raceState[a] = "engine" THEN 1 ELSE 0)

\* two callers were handed the promise of the same doInitialize call, and it
\* resolved after one ready broadcast
C1_Witness ==
    /\ target[1] # 0 /\ target[1] = target[2]
    /\ pc[1] = "resolved" /\ pc[2] = "resolved"
    /\ readyCnt[target[1]] = 1

(* C2 (as claimed): when the timeout wins the race, initialize() fails, the *)
(* manager is not ready, and the in-flight marker is cleared so that a      *)
(* later initialize() starts a fresh load.                                  *)
C2_TimeoutClearsMarker ==
    \A a \in 1..MaxAttempts : raceState[a] = "timeout" =>
        /\ promState[a] = "rejected"
        /\ errorCnt[a] = 1
        /\ initPromise # a

(* C3 (as claimed): every stored capsule record that holds               *)
(* encryptedContent has the content '[ENCRYPTED]'.                        *)
C3_NoPlaintextBesideCiphertext ==
    \A id \in 1..MaxCapsules :
        (timeCapsules[id].present /\ timeCapsules[id].encryptedContent.kind # "absent")
            => timeCapsules[id].content = ENCRYPTED_MARK

(* C4 (as claimed): a capsule saved with isEncrypted = true and non-empty *)
(* content is persisted with the marker in its content field, never with  *)
(* the plaintext, also when the encryption step fails.                    *)
C4_EncryptedNeverPlain ==
    \A id \in 1..MaxCapsules :
        (timeCapsules[id].present /\ timeCapsules[id].isEncrypted)
            => timeCapsules[id].created = ENCRYPTED_MARK

(* C5 (as claimed): decrypt applied to the blob returned by encrypt(x),   *)
(* with the passphrase of that call (or none for both), returns x.        *)
C5_RoundTrip ==
    trip.done => trip.res = Ok(jobs[trip.j].content)

(* C6 (as claimed): decrypt applied to a blob whose ciphertext, salt or   *)
(* iv was altered after encryption returns a sentinel string and does not *)
(* raise.                                                                 *)
C6_AlteredGivesSentinel ==
    alt.done => (alt.res.ok /\ alt.res.val \in {SentinelNoData, SentinelCorrupted, SentinelUnable})

(* C7 (as claimed): a cloneVoice call whose name and samples passed the   *)
(* checks of cloneVoice and whose remote clone call failed resolves with  *)
(* a model id, and exactly one stored record has that id: a local one, of *)
(* quality medium, active.                                                *)
C7_LocalFallback ==
    \A c \in 1..MaxClones :
        (/\ clones[c].pc \in {"resolved", "rejected"}
         /\ clones[c].modelId # NoId
         /\ ~clones[c].isElevenLabsModel)
        => /\ clones[c].pc = "resolved"
           /\ Cardinality({i \in 1..Len(voiceModels) :
                              voiceModels[i].modelId = clones[c].modelId}) = 1
           /\ LET m == firstModel(voiceModels, clones[c].modelId)[1]
              IN ~m.isElevenLabsModel /\ m.quality = "medium" /\ m.isActive

(* C8: a generateSpeech call with valid text whose voice id names a       *)
(* stored local model is rejected with the 'Local voice synthesis is not  *)
(* yet available' error and has made no call of the remote synthesis      *)
(* endpoint; testModel on such an id resolves with its 'not yet           *)
(* supported' failure and has made no remote call either.                 *)
C8_LocalSynthesisUnsupported ==
    synth.origin = "local" =>
        /\ synth.remoteCalls = 0
        /\ synth.op = "generateSpeech" =>
              (synth.pc = "rejected"
                  /\ synth.err = <<"Speech Generation Error: ", LocalUnsupported>>)
        /\ synth.op = "testModel" =>
              (synth.pc = "resolved"
                  /\ synth.err = <<"Local voice synthesis testing not yet supported">>)

C8_Witness ==
    /\ synth.op = "generateSpeech"
    /\ synth.origin = "local"
    /\ synth.pc = "rejected"
    /\ \E i \in 1..Len(voiceModels) :
          voiceModels[i].modelId = synth.target /\ ~voiceModels[i].isElevenLabsModel
    /\ \E i \in 1..Len(voiceModels) : voiceModels[i].isElevenLabsModel

(* C9: generateInterviewQuestion, generateTimeCapsuleContent and           *)
(* analyzeEmotionalState never reject.  A call that caught an error (the   *)
(* rejection of initialize(), a null engine, an input it refuses, a failed *)
(* completion call, an empty or invalid answer) has returned its fallback: *)
(* a template of the category with confidence 0.3, the result of           *)
(* getFallbackContent, the label of analyzeEmotionFallback.                *)
C9_NeverRejects ==
    /\ gen.op \in {"question", "content", "emotion"} => gen.pc # "rejected"
    /\ (gen.pc = "returned" /\ gen.caught # "") =>
          CASE gen.op = "question" ->
                 /\ gen.res.kind = "question"
                 /\ gen.res.confidence = FallbackConfidence
                 /\ Ok(gen.res.content) \in getFallbackQuestion(gen.questionCategory)
            [] gen.op = "content" ->
                 gen.res = getFallbackContent(gen.responses, gen.tone)
            [] gen.op = "emotion" ->
                 gen.res = emotionResult(analyzeEmotionFallback(gen.text))

\* a question was asked for a category without a template pool and the
\* completion call failed; the call has returned
C9_Witness ==
    /\ gen.op = "question"
    /\ gen.pc = "returned"
    /\ gen.questionCategory = <<109,105,115,99>>
    /\ gen.caught = "completion failed"

(* C10: every result generateInterviewQuestion returns, from the model's   *)
(* answer or from the template pool, has non-empty content that ends with  *)
(* a question mark.                                                        *)
C10_QuestionEndsWithMark ==
    (gen.op = "question" /\ gen.pc = "returned") =>
        /\ gen.res.content # <<>>
        /\ gen.res.content[Len(gen.res.content)] = 63

(* C11: generateTimeCapsuleContent called with at least one response whose *)
(* answer is not blank returns non-empty content and a non-empty title,    *)
(* whatever the completion call answers and also when it fails.            *)
C11_ContentAndTitleNonEmpty ==
    (/\ gen.op = "content"
     /\ gen.pc = "returned"
     /\ \E i \in 1..Len(gen.responses) : trim(gen.responses[i].a) # <<>>)
    => (gen.res.content # <<>> /\ gen.res.title # <<>>)

(* C12: generateTimeCapsuleContent called with no response, or with        *)
(* responses all of whose answers are blank, ends by raising an error to   *)
(* its caller: it does not return content.                                 *)
C12_EmptyResponsesRaise ==
    (/\ gen.op = "content"
     /\ gen.pc \in {"returned", "rejected"}
     /\ \A i \in 1..Len(gen.responses) : trim(gen.responses[i].a) = <<>>)
    => gen.pc = "rejected"

(* C13: every label emotion classification returns, from the manager's     *)
(* analyzeEmotionalState or from the hook's analyzeEmotion, for every text *)
(* and every answer or failure of the model, is one of the 15 allowed      *)
(* labels.                                                                 *)
C13_LabelAllowed ==
    (gen.op \in {"emotion", "hookEmotion"} /\ gen.pc = "returned")
    => gen.res.content \in validEmotions

\* the manager was asked about "I miss the past", the completion call did
\* not fail and its answer was no allowed label: the call has returned
C13_Witness ==
    /\ gen.op = "emotion"
    /\ gen.pc = "returned"
    /\ gen.caught = ""
    /\ gen.text = <<73,32,109,105,115,115,32,116,104,101,32,112,97,115,116>>
    /\ gen.res.content = Reflective

(* C14: when the completion call of analyzeEmotionalState answers with     *)
(* something that is no allowed label, the label returned is the one       *)
(* analyzeEmotionFallback computes for the text, as when the call fails.   *)
C14_InvalidAnswerUsesHeuristic ==
    [][\A answer \in GenInputs.emotionAnswers :
          (/\ EmotionCompletionSettles(answer)
           /\ answer.ok
           /\ (answer.val = NoContent
                 \/ toLowerCase(trim(answer.val)) \notin validEmotions))
          => gen'.res.content = analyzeEmotionFallback(gen.text)]_vars

(* C15: initialize() called while the manager is Ready (isInitialized and  *)
(* an engine) resolves at once: no load is started, nothing is broadcast   *)
(* and no field of the manager changes.                                    *)
C15_ReadyInitializeIsNoOp ==
    [][\A c \in 1..NCallers :
          (InitializeCall(c) /\ isInitialized /\ engine # 0)
          => /\ pc'[c] = "resolved"
             /\ UNCHANGED <<engine, isInitialized, initPromise, attempts,
                            promState, loadState, raceState, timer, warm,
                            reports, lastEvent, readyCnt, errorCnt, unloadPc>>]_vars

\* a caller was answered by a Ready manager without being handed a promise
C15_Witness ==
    \E c \in 1..NCallers :
        /\ pc[c] = "resolved"
        /\ target[c] = 0
        /\ isInitialized
        /\ engine # 0

(* C16: when unload() returns, whatever the lifecycle state it was called  *)
(* in, the manager is Unloaded: no engine, isInitialized false and         *)
(* initPromise null, so that the next initialize() starts a load.          *)
C16_UnloadLeavesUnloaded ==
    [][((unload \/ \E ok \in BOOLEAN : UnloadSettles(ok)) /\ unloadPc' = "returned")
          => (engine' = 0 /\ ~isInitialized' /\ initPromise' = 0)]_vars

(* C17: the stages broadcast follow the lifecycle edges.  A load attempt   *)
(* begins with downloading; within an attempt downloading is followed by   *)
(* downloading, loading, ready or error, loading by loading, ready or      *)
(* error, and nothing but error follows ready or error.  In particular     *)
(* downloading never follows loading.                                      *)
C17_StagesFollowEdges ==
    [][lastEvent' # lastEvent =>
          IF lastEvent'.att # lastEvent.att
          THEN lastEvent'.stage = "downloading"
          ELSE \/ lastEvent'.stage = "error"
               \/ /\ lastEvent.stage = "downloading"
                  /\ lastEvent'.stage \in {"downloading", "loading", "ready"}
               \/ /\ lastEvent.stage = "loading"
                  /\ lastEvent'.stage \in {"loading", "ready"}]_vars

(* C18: when the warm-up call fails, the promise of doInitialize resolves  *)
(* all the same, the manager stays as it was (Ready, unless unloaded       *)
(* meanwhile) and no event is broadcast.                                   *)
C18_WarmupFailureKeepsReady ==
    [][\A a \in 1..MaxAttempts :
          WarmupSettles(a, FALSE)
          => /\ promState'[a] = "resolved"
             /\ \A c \in 1..NCallers :
                   (pc[c] = "waiting" /\ target[c] = a) => pc'[c] = "resolved"
             /\ UNCHANGED <<engine, isInitialized, lastEvent, readyCnt, errorCnt>>
             /\ errorCnt[a] = 0]_vars

\* the warm-up call of the attempt that made the manager Ready has failed
C18_Witness ==
    \E a \in 1..MaxAttempts :
        /\ warm[a] = "failed"
        /\ promState[a] = "resolved"
        /\ isInitialized
        /\ engine = a

(* C19: sample validation, by Validators.voiceSamples and by the sample    *)
(* check of cloneVoice, accepts every sample set of at least 3 samples     *)
(* whose sizes all lie in [1 KB, 10 MB], both bounds included: the         *)
(* validator answers valid, and cloneVoice called with a non-blank name    *)
(* goes on to the cloning call.                                            *)
C19_ValidSampleSetsAccepted ==
    [][LET inRange(samples) ==
               /\ Len(samples) >= 3
               /\ \A i \in 1..Len(samples) :
                     samples[i] >= 1000 /\ samples[i] <= 10 * 1024 * 1024
       IN \A samples \in SampleSets :
             inRange(samples) =>
                /\ voiceSamples(samples) => validation'.res.isValid
                /\ \A c \in 1..MaxClones :
                      cloneVoice(c, <<65>>, samples) => clones'[c].pc = "remote"]_vars

(* C20: for every sample set with fewer than 3 samples, the empty set      *)
(* included, sample validation fails with a message that states the        *)
(* minimum of 3 samples: the validator answers invalid with its            *)
(* minimum-count message, and cloneVoice called with a non-blank name      *)
(* rejects with its minimum-count message.                                 *)
C20_TooFewSamplesCiteMinimum ==
    [][\A samples \in {s \in SampleSets : Len(s) < 3} :
        /\ voiceSamples(samples) =>
              /\ ~validation'.res.isValid
              /\ validation'.res.errors =
                    << <<"At least 3 voice samples are required">> >>
        /\ \A c \in 1..MaxClones :
              cloneVoice(c, <<65>>, samples) =>
                 /\ clones'[c].pc = "rejected"
                 /\ clones'[c].err =
                       <<"At least 3 voice samples are required for quality cloning">>]_vars

(* C21: sample validation reports exactly one message.  A set with fewer   *)
(* than 3 samples gets the count message whatever the sizes are, and in a  *)
(* set of 3 or more with several samples that break the size rule only     *)
(* the one with the lowest index is reported; this holds for               *)
(* Validators.voiceSamples and for the sample check of cloneVoice.         *)
C21_FirstViolationOnly ==
    [][\A samples \in SampleSets :
          LET lowest(bad) == CHOOSE i \in bad : \A k \in bad : i <= k
              \* the samples breaking the size rule of the validator
              badV == {i \in 1..Len(samples) :
                          samples[i] <= 1000 \/ samples[i] >= 10 * 1024 * 1024}
              \* the samples breaking the size rule of cloneVoice
              badC == {i \in 1..Len(samples) :
                          samples[i] < 1000 \/ samples[i] > 10 * 1024 * 1024}
          IN /\ voiceSamples(samples) =>
                   LET errors == validation'.res.errors
                   IN /\ Len(errors) <= 1
                      /\ Len(samples) < 3 =>
                            errors = << <<"At least 3 voice samples are required">> >>
                      /\ (Len(samples) >= 3 /\ badV # {}) =>
                            (Len(errors) = 1 /\ errors[1][2] = lowest(badV))
             /\ \A c \in 1..MaxClones :
                   cloneVoice(c, <<65>>, samples) =>
                      LET err == clones'[c].err
                      IN /\ Len(samples) < 3 =>
                               err \in {<<"Voice samples are required for cloning">>,
                                        <<"At least 3 voice samples are required for quality cloning">>}
                         /\ (Len(samples) >= 3 /\ badC # {}) =>
                               (Len(err) = 3 /\ err[3] = lowest(badC))]_vars

\* a set of three samples, the second too small and the third too large,
\* was validated and only sample 2 was reported
C21_Witness ==
    /\ validation.done
    /\ validation.samples = <<GoodSize, MinSampleSize - 1, maxFileSize + 1>>
    /\ validation.res.errors =
          << <<"Sample ", 2, ": ", "Audio recording must be between 1KB and 10MB">> >>

(* C22: encrypt called with the empty string fails with a validation       *)
(* error: no call of encrypt with empty content returns a blob, and the    *)
(* key such a call generated is never stored.                              *)
C22_EmptyInputRejected ==
    \A j \in 1..MaxJobs :
        (jobs[j].pc # "none" /\ jobs[j].owner = "api" /\ jobs[j].content = <<>>)
        => /\ jobs[j].pc # "returned"
           /\ (jobs[j].pw = NoPassword
                 => capsule_key # arrayBufferToBase64(jobs[j].key.raw))

(* C23: the sentinel getCapsuleContent returns on a decryption failure     *)
(* tells malformed input (text that is not JSON, a blob with a field       *)
(* missing or empty, a field that is not base64) from an authentication    *)
(* failure (an altered ciphertext): a read that fails for a reason of one  *)
(* class and a read that fails for a reason of the other class never       *)
(* return the same sentinel text.                                          *)
C23_SentinelTellsClasses ==
    [][LET failed(r) ==
               /\ r.done
               /\ r.res.val \in {SentinelNoData, SentinelCorrupted, SentinelUnable}
           malformed(r) == failed(r) /\ r.how \in {"badjson", "badchar", "empty"}
           authentication(r) ==
               failed(r) /\ r.how = "flip" /\ r.field = "encryptedData"
       IN (\/ malformed(lastRead) /\ authentication(lastRead')
           \/ authentication(lastRead) /\ malformed(lastRead'))
          => lastRead.res.val # lastRead'.res.val]_vars

(* C24: once a start of recording has acquired the microphone stream,      *)
(* every path ends with all tracks of every acquired stream stopped: when  *)
(* the component is torn down, no start is in flight and no stop event is  *)
(* pending, no acquired stream is live.                                    *)
C24_NoStreamLeftHeld ==
    (/\ rec.comp # "none"
     /\ ~rec.mounted
     /\ rec.pc = "idle"
     /\ \A r \in 1..Len(rec.recorders) : rec.recorders[r].state # "stopping")
    => \A k \in 1..Len(rec.streams) : rec.streams[k] = "stopped"

(* C25: when cloneVoice rejects its input with a validation error (a       *)
(* blank name, fewer than 3 samples, a sample outside the size bounds),    *)
(* no VoiceModel record is persisted for that attempt, neither by          *)
(* cloneVoice nor by the voice setup flow that called it.                  *)
C25_RejectedInputStoresNothing ==
    [][\A c \in 1..MaxClones :
          (/\ clones[c].pc = "rejected"
           /\ clones[c].modelId = NoId
           /\ clones'[c] # clones[c])
          => voiceModels' = voiceModels]_vars

(* C26: the result of generateInterviewQuestion identifies the tier that   *)
(* produced it.  A call returns either with confidence 0.8, no error       *)
(* caught and a completion call that answered with text, or with           *)
(* confidence 0.3 and a template of the pool of the category (the OPENING  *)
(* pool for a category without one) after an error was caught: the         *)
(* rejection of initialize(), a missing engine or parameter, a failed      *)
(* completion call or an answer that was refused.                          *)
C26_ConfidenceNamesTier ==
    [][(gen'.op = "question" /\ gen'.pc = "returned" /\ gen.pc # "returned")
       => \/ /\ gen'.res.confidence = ModelConfidence
             /\ gen'.caught = ""
             /\ gen.pc = "completing"
             /\ \E answer \in GenInputs.questionAnswers :
                   /\ answer.ok
                   /\ answer.val # NoContent
                   /\ trim(answer.val) # <<>>
                   /\ QuestionCompletionSettles(answer)
          \/ /\ gen'.res.confidence = FallbackConfidence
             /\ gen'.caught # ""
             /\ Ok(gen'.res.content) \in getFallbackQuestion(gen.questionCategory)
             /\ \A answer \in GenInputs.questionAnswers :
                   (answer.ok /\ QuestionCompletionSettles(answer))
                   => gen'.caught \in {"AI returned empty response",
                                       "Generated question is too short"}]_vars

\* a call whose completion answered "Why" returned a template with
\* confidence 0.3
C26_Witness ==
    /\ gen.op = "question"
    /\ gen.pc = "returned"
    /\ gen.caught = "Generated question is too short"
    /\ gen.res.confidence = FallbackConfidence

(* C27: every initialize() call eventually settles, even if the runtime    *)
(* never answers: a caller awaiting the promise of doInitialize does not   *)
(* stay pending forever, whether the load or the warm-up call completes    *)
(* or not.                                                                 *)
C27_InitializeSettles ==
    \A c \in 1..NCallers : (pc[c] = "waiting") ~> (pc[c] # "waiting")

(* C28: when the load times out, the error-stage progress event carries    *)
(* the text 'AI initialization timed out' and not the generic              *)
(* 'AI unavailable'; a load that fails with a network error or for lack    *)
(* of memory likewise gets the text of its own kind.                       *)
C28_ErrorTextNamesCause ==
    [][\A a \in 1..MaxAttempts :
          /\ (TimerFires(a) /\ raceState[a] = "open")
             => (lastEvent'.stage = "error"
                   /\ lastEvent'.text = "AI initialization timed out")
          /\ (LoadRejects(a, <<"n","e","t","w","o","r","k"," ","e","r","r","o","r">>)
                /\ raceState[a] = "open")
             => (lastEvent'.stage = "error"
                   /\ lastEvent'.text = "Network error loading AI")
          /\ (LoadRejects(a, <<"o","u","t"," ","o","f"," ","m","e","m","o","r","y">>)
                /\ raceState[a] = "open")
             => (lastEvent'.stage = "error"
                   /\ lastEvent'.text = "Insufficient memory for AI")]_vars

C30_UserOverEnvironmentOverDefaults ==
    cfg.done =>
        LET user == IF cfg.stored.kind = "json" THEN cfg.stored.val.f
                    ELSE [k \in {} |-> 0]
            given(section, key) ==
                section \in DOMAIN user /\ key \in DOMAIN user[section].f
            \* what the environment sets: <<set, value>>
            environment(section, key) ==
                IF <<section, key>> = <<"features", "enableAI">>
                THEN <<cfg.env.VITE_ENABLE_AI # <<>>,
                       IF cfg.env.VITE_ENABLE_AI = <<102, 97, 108, 115, 101>>
                       THEN 0 ELSE 1>>
                ELSE IF <<section, key>> = <<"features", "enableAnalytics">>
                THEN <<cfg.env.VITE_ENABLE_ANALYTICS # <<>>,
                       IF cfg.env.VITE_ENABLE_ANALYTICS = <<116, 114, 117, 101>>
                       THEN 1 ELSE 0>>
                ELSE IF <<section, key>> = <<"ai", "timeoutMs">>
                THEN <<cfg.env.VITE_AI_TIMEOUT_MS # <<>>, 5000>>
                ELSE <<FALSE, 0>>
        IN \A section \in DOMAIN defaultConfig.f :
             \A key \in DOMAIN defaultConfig.f[section].f :
               cfg.config.f[section].f[key].v =
                   IF given(section, key) THEN user[section].f[key].v
                   ELSE IF environment(section, key)[1]
                   THEN environment(section, key)[2]
                   ELSE defaultConfig.f[section].f[key].v

(* C31: cleanupModels deletes a model only when its record is missing or   *)
(* holds an empty sample, or when the service answered and its list does   *)
(* not hold the voice; never when the service could not be consulted (no   *)
(* API key, or the request failed).                                        *)
C31_DeletesOnlyOnEvidence ==
    \A k \in 1..Len(cleanup.log) :
        LET e == cleanup.log[k]
            corrupted ==
                \/ ~e.present
                \/ \E i \in 1..Len(e.model.sampleBlobs) : e.model.sampleBlobs[i] = 0
            consulted == e.hasKey /\ ~e.response.error
            reportedGone ==
                /\ e.model.isElevenLabsModel
                /\ consulted
                /\ e.model.modelId \notin e.response.voices
        IN e.deleted => (corrupted \/ reportedGone)

(* C32: a call of the hook's generateQuestion or generateContent made      *)
(* while the hook is not ready or the AI is disabled returns a fallback    *)
(* result, as analyzeEmotion does, and raises nothing to the caller.       *)
C32_NotReadyReturnsFallback ==
    gen.op \in {"hookQuestion", "hookContent", "hookEmotion"}
        => (gen.pc = "returned" /\ gen.caught = "")

(* C33: the blob of an encrypt call made without a passphrase decrypts to  *)
(* its plaintext in every later state, whatever encrypt calls were made    *)
(* since; stated for the plaintexts that UTF-8 encoding preserves.         *)
C33_EarlierBlobStaysDecryptable ==
    (/\ trip.done
     /\ jobs[trip.j].pw = NoPassword
     /\ TextDecode(TextEncode(jobs[trip.j].content)) = jobs[trip.j].content)
    => trip.res = Ok(jobs[trip.j].content)

C35_NoProgressAfterTimeoutError ==
    [][\A a \in 1..MaxAttempts :
          (raceState[a] = "timeout" /\ errorCnt[a] > 0 /\ lastEvent' # lastEvent)
          => ~(/\ lastEvent'.att = a
               /\ lastEvent'.stage \in {"downloading", "loading"})]_vars

(* C36: the outcome of the race between the load and the timeout is final. *)
(* A timer that fires after the load won leaves isInitialized and the      *)
(* engine as they are and broadcasts no error event; a load that resolves  *)
(* after the timeout won sets neither isInitialized nor the engine and     *)
(* broadcasts no ready event.                                              *)
C36_RaceOutcomeIsFinal ==
    [][\A a \in 1..MaxAttempts :
          /\ (raceState[a] = "engine" /\ TimerFires(a))
             => /\ isInitialized' = isInitialized
                /\ engine' = engine
                /\ errorCnt' = errorCnt
                /\ lastEvent' = lastEvent
                /\ promState' = promState
          /\ (raceState[a] = "timeout" /\ LoadResolves(a))
             => /\ isInitialized' = isInitialized
                /\ engine' = engine
                /\ readyCnt' = readyCnt
                /\ lastEvent' = lastEvent
                /\ promState' = promState]_vars

\* the timer of the first attempt fired after its load had won the race and
\* no error event followed; after an unload, the load of the second attempt
\* resolved after its timer had won, and the manager is not ready
C36_Witness ==
    /\ raceState[1] = "engine" /\ timer[1] = "fired"
    /\ errorCnt[1] = 0 /\ readyCnt[1] = 1
    /\ raceState[2] = "timeout" /\ loadState[2] = "done"
    /\ readyCnt[2] = 0
    /\ ~isInitialized /\ engine = 0

(* C37: isProcessing is true exactly while a cloneVoice or generateSpeech  *)
(* call of the hook is in flight: true when calls overlap and one of them  *)
(* is still running, false once none is, however the calls ended.          *)
C37_ProcessingWhileInFlight ==
    isProcessing =
        (\/ \E c \in 1..MaxClones : clones[c].pc \in {"remote", "saving"}
         \/ (synth.op = "generateSpeech" /\ synth.pc \in {"lookup", "remote"}))

(* C38: whatever getUserSettings and updateUserSettings calls were made    *)
(* for a user id, and however they overlapped, the table settings holds at *)
(* most one record of that user id.                                        *)
C38_OneSettingsRecordPerUser ==
    \A userId \in {"default", "user_1"} :
        Cardinality({i \in 1..Len(settings.table) :
                        settings.table[i].userId = userId}) <= 1

====
